---- MODULE Spec2Model ----
(***************************************************************************)
(* task-flow-manager backend: the HTTP boundary (authenticate, the route   *)
(* guards, the controllers) in front of ProjectService, TaskService,       *)
(* AuthService and UserController, over a transactional store holding      *)
(* users, projects, project_members, tasks and audit_logs.                 *)
(*                                                                         *)
(* One action is one HTTP request handled to completion.  Every service    *)
(* write runs its statements inside prisma.$transaction; the store may     *)
(* abort the transaction after any statement or at commit (abortAt).       *)
(*                                                                         *)
(* Values.  A JS null is NULL; a body or patch is a function from the      *)
(* keys it supplies to their values (a key outside DOMAIN is undefined).   *)
(* A stored nullable timestamp is a set of at most one instant ({} is SQL  *)
(* NULL).  Ids of projects, members and tasks are the tick of the request  *)
(* that inserted the row (0 for seeded rows): fresh, never reused.         *)
(* User.name and the password hash are not modelled.                       *)
(***************************************************************************)
EXTENDS Integers, Sequences, FiniteSets, TLC

\* Number of requests handled in one behaviour.
MaxOps == 2
\* Number of service calls that may be in flight at once.
MaxCalls == 2

NULL == "NULL"

UserRoles == {"ADMIN", "MEMBER", "VIEWER"}
ProjectRoles == {"MEMBER", "VIEWER"}
TaskStatuses == {"TODO", "IN_PROGRESS", "DONE"}

\* src/backend/src/utils/errorCodes.ts
OK == "OK"
AUTH_USER_NOT_FOUND == "ERR_AUTH_003"
AUTHZ_ROLE_REQUIRED == "ERR_AUTHZ_002"
AUTHZ_PROJECT_ACCESS_DENIED == "ERR_AUTHZ_003"
AUTHZ_WRITE_ACCESS_REQUIRED == "ERR_AUTHZ_005"
PROJECT_NOT_FOUND == "ERR_PROJECT_001"
MEMBER_ALREADY_EXISTS == "ERR_PROJECT_003"
MEMBER_NOT_FOUND == "ERR_PROJECT_004"
TASK_NOT_FOUND == "ERR_TASK_001"
VIEWER_CANNOT_BE_ASSIGNED == "ERR_TASK_003"
ASSIGNEE_NOT_FOUND == "ERR_TASK_004"
ASSIGNEE_NOT_IN_PROJECT == "ERR_TASK_005"
USER_NOT_FOUND == "ERR_USER_001"
\* AppError built without a code (new AppError(message, status)): the status.
HTTP_400 == "HTTP_400"
HTTP_401 == "HTTP_401"
HTTP_404 == "HTTP_404"
\* Any error that is not an AppError (a store failure): errorMiddleware's 500.
INTERNAL_ERROR == "ERR_SYSTEM_001"

VARIABLES users, projects, members, tasks, audit, clock, last, calls, tokens

vars == <<users, projects, members, tasks, audit, clock, last, calls, tokens>>

----------------------------------------------------------------------------
(* Input domains *)

SeedUsers == {"u1", "u2", "u3"}
\* Ids given to users registered by the 1st, 2nd, ... request.
NewUserIds == <<"n1", "n2", "n3", "n4", "n5">>
\* Emails a register request may carry: one taken by a seeded user, one free.
RegisterEmails == {"e1", "e4"}
\* A well-formed user id that no user row has.
GhostUser == "ghost"

ProjectNames == {"alpha", "beta"}
\* "null" is the four-character string, a legal description.
Descriptions == {"null", "text"}
Titles == {"fix", "ship"}
Priorities == {"High"}
Days == {1, 2}

\* Date.prototype.toISOString, as JSON carries a Date.
ToISOString(d) == IF d = 1 THEN "2024-01-01T00:00:00.000Z" ELSE "2024-01-02T00:00:00.000Z"
\* Date.prototype.toString, which String(date) calls.
DateToString(d) == IF d = 1 THEN "Mon Jan 01 2024 00:00:00 GMT+0000" ELSE "Tue Jan 02 2024 00:00:00 GMT+0000"
IsoStrings == {ToISOString(d) : d \in Days}
\* The store's parse of an ISO-8601 string into a timestamp.
ParseIso(s) == CHOOSE d \in Days : ToISOString(d) = s

\* String(v) of a string or null.
JsString(v) == IF v = NULL THEN "null" ELSE v
\* String(v) of a stored Date | null.
JsStringOfDate(ds) == IF ds = {} THEN "null" ELSE DateToString(CHOOSE d \in ds : TRUE)
\* JSON value of a stored Date | null.
JsonOfDate(ds) == IF ds = {} THEN NULL ELSE ToISOString(CHOOSE d \in ds : TRUE)
\* A body value (ISO string | null) as the store keeps it.
StoreDate(v) == IF v = NULL THEN {} ELSE {ParseIso(v)}

Restrict(f, S) == [k \in S |-> f[k]]

----------------------------------------------------------------------------
(* The store *)

DB == [users |-> users, projects |-> projects, members |-> members,
       tasks |-> tasks, audit |-> audit]

\* AuditRepository.create: one row appended through the transaction client.
AuditCreate(d, entityType, entityId, action, actorId, details) ==
    [d EXCEPT !.audit = Append(@, [entityType |-> entityType, entityId |-> entityId,
                                   action |-> action, actorId |-> actorId,
                                   details |-> details])]

\* A page with skip = page * pageSize: pages counted from 0.
PageFromZero(rows, page, pageSize) ==
    LET skip == page * pageSize
        end == IF skip + pageSize < Len(rows) THEN skip + pageSize ELSE Len(rows)
    IN SubSeq(rows, skip + 1, end)

\* findMany's skip = (page - 1) * pageSize and take = pageSize over the
\* ordered rows.
Page(rows, page, pageSize) ==
    LET skip == (page - 1) * pageSize
        end == IF skip + pageSize < Len(rows) THEN skip + pageSize ELSE Len(rows)
    IN SubSeq(rows, skip + 1, end)

Reverse(rows) == [i \in 1..Len(rows) |-> rows[Len(rows) + 1 - i]]

\* Math.ceil(total / pageSize)
CeilDiv(total, pageSize) == (total + pageSize - 1) \div pageSize

Range(rows) == {rows[i] : i \in 1..Len(rows)}

\* The page size the controllers fall back to.
DefaultPageSize == 20

\* AuditRepository.findByEntity: the rows of the entity, newest first, one
\* page of them, and their number.
AuditFindByEntity(d, entityType, entityId, page, pageSize) ==
    LET rows == Reverse(SelectSeq(d.audit, LAMBDA row : row.entityType = entityType
                                                       /\ row.entityId = entityId))
    IN [data |-> Page(rows, page, pageSize), total |-> Len(rows)]

\* The writes issued one by one on the shared client, outside a transaction:
\* an abort after the entity write leaves that write in the store.
TransactionWithoutRollback(d0, d1, d2, abortAt) ==
    IF abortAt = "none" THEN [db |-> d2, code |-> OK, abortAt |-> abortAt]
    ELSE IF abortAt = "afterEntity"
         THEN [db |-> d1, code |-> INTERNAL_ERROR, abortAt |-> abortAt]
         ELSE [db |-> d0, code |-> INTERNAL_ERROR, abortAt |-> abortAt]

\* prisma.$transaction(async tx => ...): the statements' effects are visible
\* together at commit, and not at all when the store aborts.  d0 is the state
\* before, d1 after the entity write, d2 after the audit write.  The result
\* carries where the store aborted the transaction that ran.
Transaction(d0, d1, d2, abortAt) ==
    IF abortAt = "none" THEN [db |-> d2, code |-> OK, abortAt |-> abortAt]
    ELSE [db |-> d0, code |-> INTERNAL_ERROR, abortAt |-> abortAt]

AbortPoints == {"none", "afterEntity", "afterAudit", "atCommit"}

\* ProjectRepository.getUserProjectRole
GetUserProjectRole(d, projectId, userId) ==
    LET ms == {m \in DOMAIN d.members : d.members[m].projectId = projectId
                                        /\ d.members[m].userId = userId}
    IN IF ms = {} THEN NULL ELSE d.members[CHOOSE m \in ms : TRUE].projectRole

----------------------------------------------------------------------------
(* Middleware *)

\* authenticate: the token's user must still exist; req.user carries the
\* role stored now.
Authenticate(d, actor) ==
    IF actor \in DOMAIN d.users THEN OK ELSE AUTH_USER_NOT_FOUND

\* requireRole deciding by the role the bearer's token was signed with.
RequireRoleOfToken(d, actor, allowedRoles) ==
    IF (IF actor \in DOMAIN tokens THEN tokens[actor] ELSE d.users[actor].role)
           \in allowedRoles
    THEN OK ELSE AUTHZ_ROLE_REQUIRED

\* requireRole(...allowedRoles)
RequireRole(d, actor, allowedRoles) ==
    IF d.users[actor].role \in allowedRoles THEN OK ELSE AUTHZ_ROLE_REQUIRED

\* requireProjectAccess(requiredRoles); {} is "no requiredRoles".
RequireProjectAccess(d, actor, projectId, requiredRoles) ==
    IF d.users[actor].role = "ADMIN" THEN OK
    ELSE LET userProjectRole == GetUserProjectRole(d, projectId, actor) IN
         IF userProjectRole = NULL THEN AUTHZ_PROJECT_ACCESS_DENIED
         ELSE IF requiredRoles # {} /\ userProjectRole \notin requiredRoles
              THEN AUTHZ_WRITE_ACCESS_REQUIRED
              ELSE OK

\* requireProjectWriteAccess = requireProjectAccess([ProjectRole.MEMBER])
RequireProjectWriteAccess(d, actor, projectId) ==
    RequireProjectAccess(d, actor, projectId, {"MEMBER"})

\* requireTaskAccess with the write check left out: any member passes.
RequireTaskAccessAnyMember(d, actor, taskId, requireWrite) ==
    IF taskId \notin DOMAIN d.tasks THEN TASK_NOT_FOUND
    ELSE IF d.users[actor].role = "ADMIN" THEN OK
    ELSE IF GetUserProjectRole(d, d.tasks[taskId].projectId, actor) = NULL
         THEN AUTHZ_PROJECT_ACCESS_DENIED
         ELSE OK

\* requireTaskAccess without the pass for global ADMINs.
RequireTaskAccessMembersOnly(d, actor, taskId, requireWrite) ==
    IF taskId \notin DOMAIN d.tasks THEN TASK_NOT_FOUND
    ELSE LET projectRole == GetUserProjectRole(d, d.tasks[taskId].projectId, actor) IN
         IF projectRole = NULL THEN AUTHZ_PROJECT_ACCESS_DENIED
         ELSE IF requireWrite /\ projectRole = "VIEWER"
              THEN AUTHZ_WRITE_ACCESS_REQUIRED
              ELSE OK

\* requireTaskAccess(requireWrite)
RequireTaskAccess(d, actor, taskId, requireWrite) ==
    IF taskId \notin DOMAIN d.tasks THEN TASK_NOT_FOUND
    ELSE IF d.users[actor].role = "ADMIN" THEN OK
    ELSE LET projectRole == GetUserProjectRole(d, d.tasks[taskId].projectId, actor) IN
         IF projectRole = NULL THEN AUTHZ_PROJECT_ACCESS_DENIED
         ELSE IF requireWrite /\ projectRole = "VIEWER"
              THEN AUTHZ_WRITE_ACCESS_REQUIRED
              ELSE OK

----------------------------------------------------------------------------
(* TaskService *)

\* data[key], or null when the key is undefined (a column left to its default).
OrNull(data, key) == IF key \in DOMAIN data THEN data[key] ELSE NULL

\* validateAssignee reporting an unknown user as one outside the project.
ValidateAssigneeOneCode(d, projectId, assigneeId) ==
    IF assigneeId = NULL THEN OK
    ELSE LET projectRole == GetUserProjectRole(d, projectId, assigneeId) IN
         IF projectRole = NULL
         THEN IF assigneeId \in DOMAIN d.users /\ d.users[assigneeId].role = "ADMIN" THEN OK
              ELSE ASSIGNEE_NOT_IN_PROJECT
         ELSE IF projectRole = "VIEWER" THEN VIEWER_CANNOT_BE_ASSIGNED
         ELSE OK

\* TaskService.validateAssignee
ValidateAssignee(d, projectId, assigneeId) ==
    IF assigneeId = NULL THEN OK
    ELSE LET projectRole == GetUserProjectRole(d, projectId, assigneeId) IN
         IF projectRole = NULL
         THEN IF assigneeId \notin DOMAIN d.users THEN ASSIGNEE_NOT_FOUND
              ELSE IF d.users[assigneeId].role = "ADMIN" THEN OK
              ELSE ASSIGNEE_NOT_IN_PROJECT
         ELSE IF projectRole = "VIEWER" THEN VIEWER_CANNOT_BE_ASSIGNED
         ELSE OK

\* The frontend's canBeAssignedTask(userId, projectMembers, globalRole);
\* projectMembers are the member rows of the project.
CanBeAssignedTask(userId, projectMembers, globalRole) ==
    IF globalRole = "ADMIN" THEN TRUE
    ELSE LET found == {m \in projectMembers : m.userId = userId} IN
         IF found = {} THEN FALSE
         ELSE (CHOOSE m \in found : TRUE).projectRole # "VIEWER"

\* The keys TaskService.create copies out of its data into the audit details.
CreateTaskKeys == {"title", "description", "priority", "dueDate", "assigneeId"}

\* Task.status's column default.
DefaultStatus == "TODO"

\* The foreign keys of a task row: tasks reference projects.
TaskForeignKeysHold(d, projectId) == projectId \in DOMAIN d.projects

\* tx.task.create: the row inserted for data.
TaskInsert(d, id, data, projectId, actorId, now) ==
    [d EXCEPT !.tasks = @ @@ (id :>
        [title |-> data.title,
         description |-> OrNull(data, "description"),
         status |-> DefaultStatus,
         priority |-> OrNull(data, "priority"),
         dueDate |-> IF "dueDate" \in DOMAIN data THEN StoreDate(data.dueDate) ELSE {},
         completedAt |-> {},
         createdAt |-> now,
         projectId |-> projectId,
         assigneeId |-> OrNull(data, "assigneeId"),
         reporterId |-> actorId])]

\* TaskService.create(data, actorId); the projectId is data.projectId.
TaskServiceCreate(d, id, data, projectId, actorId, now, abortAt) ==
    LET valid == ValidateAssignee(d, projectId, OrNull(data, "assigneeId")) IN
    IF valid # OK THEN [db |-> d, code |-> valid]
    ELSE IF ~TaskForeignKeysHold(d, projectId) THEN [db |-> d, code |-> INTERNAL_ERROR]
    ELSE LET d1 == TaskInsert(d, id, data, projectId, actorId, now)
             d2 == AuditCreate(d1, "Task", id, "CREATE", actorId,
                       Restrict(data, DOMAIN data \cap CreateTaskKeys)
                           @@ ("projectId" :> projectId))
         IN Transaction(d, d1, d2, abortAt)

\* The side effect with the else-branch left out: completedAt is set on
\* entering DONE and never cleared.
UpdateDataNeverCleared(current, data, now) ==
    IF "status" \in DOMAIN data /\ data.status = "DONE" /\ current.status # "DONE"
    THEN ("completedAt" :> {now}) @@ data
    ELSE data

\* The status-transition side effect of TaskService.update: updateData is
\* data plus completedAt when the status enters or leaves DONE.
UpdateData(current, data, now) ==
    IF "status" \in DOMAIN data /\ data.status = "DONE" /\ current.status # "DONE"
    THEN ("completedAt" :> {now}) @@ data
    ELSE IF "status" \in DOMAIN data /\ data.status # "DONE" /\ current.status = "DONE"
    THEN ("completedAt" :> {}) @@ data
    ELSE data

\* tx.task.update({where: {id}, data: updateData}): every supplied key is
\* written, a dueDate string parsed into a timestamp.
TaskUpdateRow(row, updateData) ==
    [k \in DOMAIN row |->
        IF k \notin DOMAIN updateData THEN row[k]
        ELSE IF k = "dueDate" THEN StoreDate(updateData[k])
        ELSE updateData[k]]

fieldsToCheck == {"title", "description", "status", "priority", "assigneeId", "dueDate"}

\* String(oldVal) for the stored value of a checked field.
OldString(field, oldVal) ==
    IF field = "dueDate" THEN JsStringOfDate(oldVal) ELSE JsString(oldVal)

\* The stored value of a checked field as the JSON details keep it.
OldJson(field, oldVal) ==
    IF field = "dueDate" THEN JsonOfDate(oldVal) ELSE oldVal

\* The diff of TaskService.update: String(oldVal) !== String(newVal).
FieldChanged(field, oldVal, newVal) == OldString(field, oldVal) # JsString(newVal)

\* The diff taken against the row the update returned instead of the row
\* read before it.
TaskDiffAgainstUpdatedRow(current, data) ==
    LET task == TaskUpdateRow(current, data)
        changed == {f \in fieldsToCheck \cap DOMAIN data :
                        FieldChanged(f, task[f], data[f])}
    IN [f \in changed |-> [old |-> OldJson(f, task[f]), new |-> data[f]]]

TaskDiff(current, data) ==
    LET changed == {f \in fieldsToCheck \cap DOMAIN data :
                        FieldChanged(f, current[f], data[f])}
    IN [f \in changed |-> [old |-> OldJson(f, current[f]), new |-> data[f]]]

\* The foreign key of Task.reporterId: a reporter written by an update is
\* a user.
ReporterForeignKeyHolds(d, updateData) ==
    "reporterId" \in DOMAIN updateData => updateData.reporterId \in DOMAIN d.users

\* The reads TaskService.update makes before its transaction: findById
\* and validateAssignee.
TaskServiceUpdateCheck(d, id, data) ==
    IF id \notin DOMAIN d.tasks THEN TASK_NOT_FOUND
    ELSE IF "assigneeId" \in DOMAIN data
    THEN ValidateAssignee(d, d.tasks[id].projectId, data.assigneeId)
    ELSE OK

\* The transaction of TaskService.update, current being the row read
\* before it: tx.task.update throws when the row is gone, updateData and the
\* diff are taken from current.
TaskServiceUpdateTx(d, id, current, data, actorId, now, abortAt) ==
    IF id \notin DOMAIN d.tasks THEN [db |-> d, code |-> INTERNAL_ERROR]
    ELSE IF ~ReporterForeignKeyHolds(d, UpdateData(current, data, now))
    THEN [db |-> d, code |-> INTERNAL_ERROR]
    ELSE IF "projectId" \in DOMAIN data /\ ~TaskForeignKeysHold(d, data.projectId)
    THEN [db |-> d, code |-> INTERNAL_ERROR]
    ELSE LET updateData == UpdateData(current, data, now)
             d1 == [d EXCEPT !.tasks[id] = TaskUpdateRow(@, updateData)]
             diff == TaskDiff(current, data)
             d2 == IF DOMAIN diff # {}
                   THEN AuditCreate(d1, "Task", id, "UPDATE", actorId, diff)
                   ELSE d1
         IN Transaction(d, d1, d2, abortAt)

\* TaskService.update(id, data, actorId)
TaskServiceUpdate(d, id, data, actorId, now, abortAt) ==
    IF TaskServiceUpdateCheck(d, id, data) # OK
    THEN [db |-> d, code |-> TaskServiceUpdateCheck(d, id, data)]
    ELSE TaskServiceUpdateTx(d, id, d.tasks[id], data, actorId, now, abortAt)

\* The place of a status in the TaskStatus enum, which orderBy status
\* follows.
StatusRank(status) ==
    IF status = "TODO" THEN 0 ELSE IF status = "IN_PROGRESS" THEN 1 ELSE 2

\* {contains: search, mode: 'insensitive'} on the words of this model, all
\* lower case and none part of another: a text contains a word when it is
\* that word.
Contains(text, search) == text = search

\* The where of findByProjectId: the project, and each filter that is set.
TaskWhere(d, projectId, filter) ==
    {t \in DOMAIN d.tasks :
        /\ d.tasks[t].projectId = projectId
        /\ "status" \in DOMAIN filter => d.tasks[t].status = filter.status
        /\ "assigneeId" \in DOMAIN filter => d.tasks[t].assigneeId = filter.assigneeId
        /\ "search" \in DOMAIN filter =>
              \/ Contains(d.tasks[t].title, filter.search)
              \/ Contains(d.tasks[t].description, filter.search)}

\* orderBy [{status: 'asc'}, {createdAt: 'desc'}], rows equal in both in
\* the order of their ids.
RECURSIVE TaskOrder(_, _)
TaskOrder(d, ids) ==
    IF ids = {} THEN <<>>
    ELSE LET first == CHOOSE t \in ids : \A u \in ids :
                \/ StatusRank(d.tasks[t].status) < StatusRank(d.tasks[u].status)
                \/ /\ d.tasks[t].status = d.tasks[u].status
                   /\ \/ d.tasks[t].createdAt > d.tasks[u].createdAt
                      \/ d.tasks[t].createdAt = d.tasks[u].createdAt /\ t >= u
         IN <<first>> \o TaskOrder(d, ids \ {first})

\* TaskRepository.findByProjectId
TaskFindByProjectId(d, projectId, page, pageSize, filter) ==
    [data |-> Page(TaskOrder(d, TaskWhere(d, projectId, filter)), page, pageSize),
     total |-> Cardinality(TaskWhere(d, projectId, filter))]

\* TaskService.getByProjectId(projectId, page, pageSize, filter)
TaskServiceGetByProjectId(d, projectId, page, pageSize, filter) ==
    LET result == TaskFindByProjectId(d, projectId, page, pageSize, filter)
    IN [data |-> result.data,
        meta |-> [total |-> result.total, page |-> page, pageSize |-> pageSize,
                  totalPages |-> CeilDiv(result.total, pageSize)]]

\* The snapshot TaskService.delete logs.
TaskSnapshot(task) ==
    [title |-> task.title, description |-> task.description, status |-> task.status,
     priority |-> task.priority, dueDate |-> JsonOfDate(task.dueDate),
     projectId |-> task.projectId, assigneeId |-> task.assigneeId]

\* The transaction of TaskService.delete, task being the row read before
\* it: tx.task.delete throws when the row is gone.
TaskServiceDeleteTx(d, id, task, actorId, abortAt) ==
    IF id \notin DOMAIN d.tasks THEN [db |-> d, code |-> INTERNAL_ERROR]
    ELSE LET d1 == [d EXCEPT !.tasks = Restrict(@, DOMAIN @ \ {id})]
             d2 == AuditCreate(d1, "Task", id, "DELETE", actorId, TaskSnapshot(task))
         IN Transaction(d, d1, d2, abortAt)

\* TaskService.delete(id, actorId)
TaskServiceDelete(d, id, actorId, abortAt) ==
    IF id \notin DOMAIN d.tasks THEN [db |-> d, code |-> TASK_NOT_FOUND]
    ELSE TaskServiceDeleteTx(d, id, d.tasks[id], actorId, abortAt)

----------------------------------------------------------------------------
(* ProjectService *)

\* ProjectService.create(data, actorId)
ProjectServiceCreate(d, id, data, actorId, abortAt) ==
    LET d1 == [d EXCEPT !.projects = @ @@ (id :>
                  [name |-> data.name, description |-> OrNull(data, "description")])]
        d2 == AuditCreate(d1, "Project", id, "CREATE", actorId,
                  Restrict(data, DOMAIN data \cap {"name", "description"}))
    IN Transaction(d, d1, d2, abortAt)

\* tx.project.update({where: {id}, data})
ProjectUpdateRow(row, data) ==
    [k \in DOMAIN row |-> IF k \in DOMAIN data THEN data[k] ELSE row[k]]

\* The diff of ProjectService.update: data.f !== undefined && data.f !== current.f.
ProjectDiff(current, data) ==
    LET changed == {f \in {"name", "description"} \cap DOMAIN data : data[f] # current[f]}
    IN [f \in changed |-> [old |-> current[f], new |-> data[f]]]

\* An update transaction that logs every call, changed or not.
ProjectServiceUpdateTxAlwaysLogged(d, id, current, data, actorId, abortAt) ==
    IF id \notin DOMAIN d.projects THEN [db |-> d, code |-> INTERNAL_ERROR]
    ELSE LET d1 == [d EXCEPT !.projects[id] = ProjectUpdateRow(@, data)]
             d2 == AuditCreate(d1, "Project", id, "UPDATE", actorId,
                               ProjectDiff(current, data))
         IN Transaction(d, d1, d2, abortAt)

\* The transaction of ProjectService.update, current being the row read
\* before it: tx.project.update throws when the row is gone.
ProjectServiceUpdateTx(d, id, current, data, actorId, abortAt) ==
    IF id \notin DOMAIN d.projects THEN [db |-> d, code |-> INTERNAL_ERROR]
    ELSE LET d1 == [d EXCEPT !.projects[id] = ProjectUpdateRow(@, data)]
             diff == ProjectDiff(current, data)
             d2 == IF DOMAIN diff # {}
                   THEN AuditCreate(d1, "Project", id, "UPDATE", actorId, diff)
                   ELSE d1
         IN Transaction(d, d1, d2, abortAt)

\* ProjectService.update(id, data, actorId)
ProjectServiceUpdate(d, id, data, actorId, abortAt) ==
    IF id \notin DOMAIN d.projects THEN [db |-> d, code |-> PROJECT_NOT_FOUND]
    ELSE ProjectServiceUpdateTx(d, id, d.projects[id], data, actorId, abortAt)

\* A project delete without the cascade to its tasks.
ProjectDeleteRowLeavingTasks(d, id) ==
    [d EXCEPT !.projects = Restrict(@, DOMAIN @ \ {id}),
              !.members = Restrict(@, {m \in DOMAIN @ : @[m].projectId # id})]

\* A delete that also takes the audit rows of the project with it.
ProjectDeleteRowWithHistory(d, id) ==
    [d EXCEPT !.projects = Restrict(@, DOMAIN @ \ {id}),
              !.members = Restrict(@, {m \in DOMAIN @ : @[m].projectId # id}),
              !.tasks = Restrict(@, {t \in DOMAIN @ : @[t].projectId # id}),
              !.audit = SelectSeq(@, LAMBDA row : ~(row.entityType = "Project"
                                                    /\ row.entityId = id))]

\* tx.project.delete({where: {id}}): the project's tasks and members go with
\* it (cascade delete).
ProjectDeleteRow(d, id) ==
    [d EXCEPT !.projects = Restrict(@, DOMAIN @ \ {id}),
              !.members = Restrict(@, {m \in DOMAIN @ : @[m].projectId # id}),
              !.tasks = Restrict(@, {t \in DOMAIN @ : @[t].projectId # id})]

\* The transaction of ProjectService.delete, project being the row read
\* before it: tx.project.delete throws when the row is gone.
ProjectServiceDeleteTx(d, id, project, actorId, abortAt) ==
    IF id \notin DOMAIN d.projects THEN [db |-> d, code |-> INTERNAL_ERROR]
    ELSE LET d1 == ProjectDeleteRow(d, id)
             d2 == AuditCreate(d1, "Project", id, "DELETE", actorId,
                       [name |-> project.name, description |-> project.description])
         IN Transaction(d, d1, d2, abortAt)

\* ProjectService.delete(id, actorId)
ProjectServiceDelete(d, id, actorId, abortAt) ==
    IF id \notin DOMAIN d.projects THEN [db |-> d, code |-> PROJECT_NOT_FOUND]
    ELSE ProjectServiceDeleteTx(d, id, d.projects[id], actorId, abortAt)

\* addMember as an upsert: an existing membership takes the new role.
ProjectServiceAddMemberUpsert(d, id, projectId, userId, projectRole, actorId, abortAt) ==
    IF projectId \notin DOMAIN d.projects THEN [db |-> d, code |-> PROJECT_NOT_FOUND]
    ELSE IF userId \notin DOMAIN d.users THEN [db |-> d, code |-> USER_NOT_FOUND]
    ELSE LET ms == {m \in DOMAIN d.members : d.members[m].projectId = projectId
                                             /\ d.members[m].userId = userId}
             d1 == IF ms = {}
                   THEN [d EXCEPT !.members = @ @@ (id :>
                            [projectId |-> projectId, userId |-> userId,
                             projectRole |-> projectRole])]
                   ELSE [d EXCEPT !.members =
                            [m \in DOMAIN @ |-> IF m \in ms
                                                THEN [@[m] EXCEPT !.projectRole = projectRole]
                                                ELSE @[m]]]
             d2 == AuditCreate(d1, "Project", projectId, "UPDATE", actorId,
                       [memberAdded |-> [userId |-> userId,
                                         userEmail |-> d.users[userId].email,
                                         projectRole |-> projectRole]])
         IN Transaction(d, d1, d2, abortAt)

\* A member table without the unique key on (projectId, userId).
MemberInsertNeverConflicts(d, projectId, userId) == FALSE

\* The unique key projectId_userId of ProjectMember: an insert of a pair
\* that has a row fails.
MemberInsertConflicts(d, projectId, userId) ==
    \E m \in DOMAIN d.members : /\ d.members[m].projectId = projectId
                                 /\ d.members[m].userId = userId

\* The foreign keys of a ProjectMember row.
MemberForeignKeysHold(d, projectId, userId) ==
    projectId \in DOMAIN d.projects /\ userId \in DOMAIN d.users

\* The reads addMember makes before its transaction.
ProjectServiceAddMemberCheck(d, projectId, userId) ==
    IF projectId \notin DOMAIN d.projects THEN PROJECT_NOT_FOUND
    ELSE IF userId \notin DOMAIN d.users THEN USER_NOT_FOUND
    ELSE IF GetUserProjectRole(d, projectId, userId) # NULL THEN MEMBER_ALREADY_EXISTS
    ELSE OK

\* The transaction of addMember: tx.projectMember.create, which throws on a
\* key violation, and the audit row.
ProjectServiceAddMemberTx(d, id, projectId, userId, projectRole, actorId, abortAt) ==
    IF \/ MemberInsertConflicts(d, projectId, userId)
       \/ ~MemberForeignKeysHold(d, projectId, userId)
    THEN [db |-> d, code |-> INTERNAL_ERROR]
    ELSE LET d1 == [d EXCEPT !.members = @ @@ (id :>
                       [projectId |-> projectId, userId |-> userId,
                        projectRole |-> projectRole])]
             d2 == AuditCreate(d1, "Project", projectId, "UPDATE", actorId,
                       [memberAdded |-> [userId |-> userId,
                                         userEmail |-> d.users[userId].email,
                                         projectRole |-> projectRole]])
         IN Transaction(d, d1, d2, abortAt)

\* ProjectService.addMember(projectId, userId, projectRole, actorId)
ProjectServiceAddMember(d, id, projectId, userId, projectRole, actorId, abortAt) ==
    IF ProjectServiceAddMemberCheck(d, projectId, userId) # OK
    THEN [db |-> d, code |-> ProjectServiceAddMemberCheck(d, projectId, userId)]
    ELSE ProjectServiceAddMemberTx(d, id, projectId, userId, projectRole, actorId,
                                   abortAt)

\* ProjectService.updateMemberRole(projectId, memberId, newRole, actorId)
ProjectServiceUpdateMemberRole(d, projectId, memberId, newRole, actorId, abortAt) ==
    IF memberId \notin DOMAIN d.members \/ d.members[memberId].projectId # projectId
    THEN [db |-> d, code |-> MEMBER_NOT_FOUND]
    ELSE LET member == d.members[memberId]
             oldRole == member.projectRole
         IN IF oldRole = newRole THEN [db |-> d, code |-> OK]
            ELSE LET d1 == [d EXCEPT !.members[memberId].projectRole = newRole]
                     d2 == AuditCreate(d1, "Project", projectId, "UPDATE", actorId,
                               [memberRoleChanged |->
                                   [userId |-> member.userId,
                                    projectRole |-> [old |-> oldRole, new |-> newRole]]])
                 IN Transaction(d, d1, d2, abortAt)

\* removeMember logging the removal against the membership row instead of
\* the project.
ProjectServiceRemoveMemberLoggedOnMember(d, projectId, memberId, actorId, abortAt) ==
    IF memberId \notin DOMAIN d.members \/ d.members[memberId].projectId # projectId
    THEN [db |-> d, code |-> MEMBER_NOT_FOUND]
    ELSE LET member == d.members[memberId]
             d1 == [d EXCEPT !.members = Restrict(@, DOMAIN @ \ {memberId})]
             d2 == AuditCreate(d1, "ProjectMember", memberId, "DELETE", actorId,
                       [memberRemoved |-> [userId |-> member.userId,
                                           userEmail |-> d.users[member.userId].email,
                                           projectRole |-> member.projectRole]])
         IN Transaction(d, d1, d2, abortAt)

\* ProjectService.removeMember(projectId, memberId, actorId)
ProjectServiceRemoveMember(d, projectId, memberId, actorId, abortAt) ==
    IF memberId \notin DOMAIN d.members \/ d.members[memberId].projectId # projectId
    THEN [db |-> d, code |-> MEMBER_NOT_FOUND]
    ELSE LET member == d.members[memberId]
             d1 == [d EXCEPT !.members = Restrict(@, DOMAIN @ \ {memberId})]
             d2 == AuditCreate(d1, "Project", projectId, "UPDATE", actorId,
                       [memberRemoved |-> [userId |-> member.userId,
                                           userEmail |-> d.users[member.userId].email,
                                           projectRole |-> member.projectRole]])
         IN Transaction(d, d1, d2, abortAt)

\* ProjectService.getHistory(projectId, page, pageSize)
ProjectServiceGetHistory(d, projectId, page, pageSize) ==
    AuditFindByEntity(d, "Project", projectId, page, pageSize)

\* Ids in descending order: orderBy createdAt desc, an id being the tick of
\* the row's creation.
RECURSIVE NewestFirst(_)
NewestFirst(ids) ==
    IF ids = {} THEN <<>>
    ELSE LET newest == CHOOSE i \in ids : \A j \in ids : j <= i
         IN <<newest>> \o NewestFirst(ids \ {newest})

\* ProjectRepository.findAll
ProjectFindAll(d, page, pageSize) ==
    [data |-> Page(NewestFirst(DOMAIN d.projects), page, pageSize),
     total |-> Cardinality(DOMAIN d.projects)]

\* findByUserId counting every project instead of the user's.
ProjectFindByUserIdCountingAll(d, userId, userIsAdmin, page, pageSize) ==
    IF userIsAdmin THEN ProjectFindAll(d, page, pageSize)
    ELSE LET mine == {p \in DOMAIN d.projects :
                         \E m \in DOMAIN d.members : /\ d.members[m].projectId = p
                                                      /\ d.members[m].userId = userId}
         IN [data |-> Page(NewestFirst(mine), page, pageSize),
             total |-> Cardinality(DOMAIN d.projects)]

\* ProjectRepository.findByUserId: where members some {userId}
ProjectFindByUserId(d, userId, userIsAdmin, page, pageSize) ==
    IF userIsAdmin THEN ProjectFindAll(d, page, pageSize)
    ELSE LET mine == {p \in DOMAIN d.projects :
                         \E m \in DOMAIN d.members : /\ d.members[m].projectId = p
                                                      /\ d.members[m].userId = userId}
         IN [data |-> Page(NewestFirst(mine), page, pageSize),
             total |-> Cardinality(mine)]

\* ProjectService.getAll(userId, isAdmin, page, pageSize)
ProjectServiceGetAll(d, userId, isAdmin, page, pageSize) ==
    LET result == ProjectFindByUserId(d, userId, isAdmin, page, pageSize)
    IN [data |-> result.data,
        meta |-> [total |-> result.total, page |-> page, pageSize |-> pageSize,
                  totalPages |-> CeilDiv(result.total, pageSize)]]

----------------------------------------------------------------------------
(* AnalyticsService.  A timestamp is a tick and a tick is a day. *)

\* The tasks of a project.
ProjectTasks(d, projectId) == {t \in DOMAIN d.tasks : d.tasks[t].projectId = projectId}

\* getTasksByStatus returning the groups of groupBy as they come: a status
\* no task has is no key.
GetTasksByStatusGroupsOnly(d, projectId) ==
    [st \in {d.tasks[t].status : t \in ProjectTasks(d, projectId)} |->
        Cardinality({t \in ProjectTasks(d, projectId) : d.tasks[t].status = st})]

\* getTasksByStatus: groupBy status, the missing groups filled with 0.
GetTasksByStatus(d, projectId) ==
    [st \in TaskStatuses |->
        Cardinality({t \in ProjectTasks(d, projectId) : d.tasks[t].status = st})]

\* where {projectId, status: {not: 'DONE'}, dueDate: {lt: new Date()}}
Overdue(d, projectId, now) ==
    {t \in ProjectTasks(d, projectId) :
        /\ d.tasks[t].status # "DONE"
        /\ \E due \in d.tasks[t].dueDate : due < now}

\* getOverdueCount
GetOverdueCount(d, projectId, now) == Cardinality(Overdue(d, projectId, now))

\* The default of getOverdueTasks' limit.
OverdueLimit == 5

\* Task ids by dueDate ascending, equal due dates in the order of the ids.
RECURSIVE OldestDueFirst(_, _)
OldestDueFirst(d, ids) ==
    IF ids = {} THEN <<>>
    ELSE LET first == CHOOSE t \in ids : \A u \in ids :
                          \/ \E a \in d.tasks[t].dueDate, b \in d.tasks[u].dueDate : a < b
                          \/ d.tasks[t].dueDate = d.tasks[u].dueDate /\ t <= u
         IN <<first>> \o OldestDueFirst(d, ids \ {first})

\* getOverdueTasks(projectId, limit = 5)
GetOverdueTasks(d, projectId, now) ==
    Page(OldestDueFirst(d, Overdue(d, projectId, now)), 1, OverdueLimit)

\* The rows both raw queries read: status DONE and completedAt not null.
Completed(d, projectId) ==
    {t \in ProjectTasks(d, projectId) :
        d.tasks[t].status = "DONE" /\ d.tasks[t].completedAt # {}}

\* EXTRACT(EPOCH FROM (completedAt - createdAt)) / 3600
DurationHours(task) ==
    (CHOOSE c \in task.completedAt : TRUE) * 24 - task.createdAt * 24

RECURSIVE SumDurationHours(_, _)
SumDurationHours(d, ids) ==
    IF ids = {} THEN 0
    ELSE LET t == CHOOSE u \in ids : TRUE
         IN DurationHours(d.tasks[t]) + SumDurationHours(d, ids \ {t})

\* getAvgCompletionTime, in hundredths of an hour (toFixed(2)): null when
\* no row is completed and when the average is 0, which is falsy.  The
\* number | null is a set of at most one number ({} is null).
GetAvgCompletionTime(d, projectId) ==
    LET ids == Completed(d, projectId)
        total == SumDurationHours(d, ids)
        n == Cardinality(ids)
    IN IF n = 0 \/ total = 0 THEN {}
       ELSE IF total > 0 THEN {(200 * total + n) \div (2 * n)}
       ELSE {0 - ((200 * (0 - total) + n) \div (2 * n))}

\* The CASE of getCompletionTimeDistribution: the first branch that matches.
CompletionRange(durationHours) ==
    IF durationHours < 24 THEN "< 1 Day"
    ELSE IF durationHours >= 24 /\ durationHours <= 72 THEN "1-3 Days"
    ELSE IF durationHours >= 72 /\ durationHours <= 168 THEN "3-7 Days"
    ELSE "> 7 Days"

CompletionRanges == {"< 1 Day", "1-3 Days", "3-7 Days", "> 7 Days"}

\* getCompletionTimeDistribution
GetCompletionTimeDistribution(d, projectId) ==
    [range \in CompletionRanges |->
        Cardinality({t \in Completed(d, projectId) :
                        CompletionRange(DurationHours(d.tasks[t])) = range})]

\* The five queries of getProjectAnalytics.
AnalyticsQueries == {"tasksByStatus", "overdueCount", "overdueTasks",
                     "avgCompletionTimeHours", "completionTimeDistribution"}

\* What one of the five queries returns on the store d at time now.
AnalyticsQueryResult(query, d, projectId, now) ==
    IF query = "tasksByStatus" THEN GetTasksByStatus(d, projectId)
    ELSE IF query = "overdueCount" THEN GetOverdueCount(d, projectId, now)
    ELSE IF query = "overdueTasks" THEN GetOverdueTasks(d, projectId, now)
    ELSE IF query = "avgCompletionTimeHours" THEN GetAvgCompletionTime(d, projectId)
    ELSE GetCompletionTimeDistribution(d, projectId)

----------------------------------------------------------------------------
(* AuthService and UserController *)

\* AuthService.login(email, password): the payload signed into the token is
\* the user's id and the role stored at that moment.
AuthServiceLogin(d, email, passwordValid) ==
    LET found == {u \in DOMAIN d.users : d.users[u].email = email} IN
    IF found = {} \/ ~passwordValid THEN [code |-> HTTP_401]
    ELSE LET user == CHOOSE u \in found : TRUE IN
         [code |-> OK, token |-> [id |-> user, role |-> d.users[user].role]]

\* AuthService.register(email, name, password, role = 'VIEWER')
AuthServiceRegister(d, id, data) ==
    IF \E u \in DOMAIN d.users : d.users[u].email = data.email
    THEN [db |-> d, code |-> HTTP_400]
    ELSE [db |-> [d EXCEPT !.users = @ @@ (id :>
                     [email |-> data.email,
                      role |-> IF "role" \in DOMAIN data THEN data.role ELSE "VIEWER"])],
          code |-> OK]

\* UserController.update without the self-demotion check.
UserControllerUpdateAnyTarget(d, actor, id, data) ==
    IF id \notin DOMAIN d.users THEN [db |-> d, code |-> HTTP_404]
    ELSE [db |-> [d EXCEPT !.users[id].role =
                     IF "role" \in DOMAIN data THEN data.role ELSE @],
          code |-> OK]

\* UserController.update
UserControllerUpdate(d, actor, id, data) ==
    IF id \notin DOMAIN d.users THEN [db |-> d, code |-> HTTP_404]
    ELSE IF actor = id /\ "role" \in DOMAIN data /\ data.role # d.users[id].role
         THEN [db |-> d, code |-> HTTP_400]
    ELSE [db |-> [d EXCEPT !.users[id].role =
                     IF "role" \in DOMAIN data THEN data.role ELSE @],
          code |-> OK]

\* No row of another table refers to the user.
Unreferenced(d, id) ==
    /\ \A m \in DOMAIN d.members : d.members[m].userId # id
    /\ \A t \in DOMAIN d.tasks : d.tasks[t].assigneeId # id /\ d.tasks[t].reporterId # id
    /\ \A i \in 1..Len(d.audit) : d.audit[i].actorId # id

\* UserController.delete
UserControllerDelete(d, actor, id) ==
    IF id \notin DOMAIN d.users THEN [db |-> d, code |-> HTTP_404]
    ELSE IF actor = id THEN [db |-> d, code |-> HTTP_400]
    ELSE [db |-> [d EXCEPT !.users = Restrict(@, DOMAIN @ \ {id})], code |-> OK]

----------------------------------------------------------------------------
(* State after prisma/seed.ts: an admin, a member and a viewer; one project
   whose members are the admin and the member (MEMBER) and the viewer
   (VIEWER); one task, TODO and unassigned or DONE and assigned; no audit
   rows.  Seeded rows have ids <= 0. *)

SeedTask(status) ==
    [title |-> "fix", description |-> "text", status |-> status,
     priority |-> "High", dueDate |-> {1},
     completedAt |-> IF status = "DONE" THEN {0} ELSE {},
     createdAt |-> 0, projectId |-> 0,
     assigneeId |-> IF status = "DONE" THEN "u2" ELSE NULL,
     reporterId |-> "u2"]

NoData == [k \in {} |-> NULL]

Init ==
    /\ users = [u \in SeedUsers |->
                  IF u = "u1" THEN [email |-> "e1", role |-> "ADMIN"]
                  ELSE IF u = "u2" THEN [email |-> "e2", role |-> "MEMBER"]
                  ELSE [email |-> "e3", role |-> "VIEWER"]]
    /\ projects = (0 :> [name |-> "alpha", description |-> "text"])
    /\ members = (0 :> [projectId |-> 0, userId |-> "u1", projectRole |-> "MEMBER"])
              @@ (-1 :> [projectId |-> 0, userId |-> "u2", projectRole |-> "MEMBER"])
              @@ (-2 :> [projectId |-> 0, userId |-> "u3", projectRole |-> "VIEWER"])
    /\ \E status \in {"TODO", "DONE"} : tasks = (0 :> SeedTask(status))
    /\ audit = <<>>
    /\ clock = 0
    /\ last = [op |-> "Init", actor |-> NULL, code |-> OK, pid |-> 0, id |-> 0,
               data |-> NoData, abortAt |-> "none"]
    /\ calls = <<>>
    /\ tokens = [u \in SeedUsers |-> users[u].role]

----------------------------------------------------------------------------
(* Requests *)

\* Bearers of a token: every user that is or was seeded or registered, and
\* every user that logged in.
Actors == SeedUsers \cup DOMAIN users \cup DOMAIN tokens
\* Ids a request may name: those of the rows present and one of no row.
Targets(rows) == DOMAIN rows \cup {clock + 1}
UserTargets == DOMAIN users \cup {GhostUser}

\* The response: the store as the handler left it, and what the caller got;
\* abortAt is "none" unless a transaction of the handler was aborted.
Answer(op, actor, pid, id, data, res) ==
    /\ users' = res.db.users
    /\ projects' = res.db.projects
    /\ members' = res.db.members
    /\ tasks' = res.db.tasks
    /\ audit' = res.db.audit
    /\ clock' = clock + 1
    /\ last' = [op |-> op, actor |-> actor, code |-> res.code, pid |-> pid, id |-> id,
                data |-> data,
                abortAt |-> IF "abortAt" \in DOMAIN res THEN res.abortAt ELSE "none"]
    /\ tokens' = tokens

\* The response of a handler that runs from its first read to its last
\* write with no other request in between: the calls in flight stay.
Respond(op, actor, pid, id, data, res) ==
    /\ Answer(op, actor, pid, id, data, res)
    /\ calls' = calls

\* A response that leaves the store as it was: a request stopped by
\* authenticate or a guard before its body is read, or a read.
Reply(op, actor, pid, id, code) ==
    Respond(op, actor, pid, id, NoData, [db |-> DB, code |-> code])

\* authenticate, then the route's guard.
Guard(actor, guard) == IF Authenticate(DB, actor) # OK THEN Authenticate(DB, actor) ELSE guard

RegisterBodies ==
    {[email |-> e] : e \in RegisterEmails}
        \cup {[email |-> e, role |-> r] : e \in RegisterEmails, r \in UserRoles}

\* POST /auth/register: authenticate, validate(registerSchema), AuthController.register
Register ==
    /\ clock < MaxOps
    /\ \E actor \in Actors :
        LET pre == Guard(actor, OK) IN
        IF pre # OK THEN Reply("Register", actor, 0, 0, pre)
        ELSE \E data \in RegisterBodies :
                Respond("Register", actor, 0, 0, data,
                        AuthServiceRegister(DB, NewUserIds[clock + 1], data))

UserUpdateBodies == {NoData} \cup {[role |-> r] : r \in UserRoles}

\* PUT /users/:id (Admin only): UserController.update
UserUpdate ==
    /\ clock < MaxOps
    /\ \E actor \in Actors :
        LET pre == Guard(actor, RequireRole(DB, actor, {"ADMIN"})) IN
        IF pre # OK THEN Reply("UserUpdate", actor, 0, 0, pre)
        ELSE \E id \in UserTargets, data \in UserUpdateBodies :
                Respond("UserUpdate", actor, 0, 0, [userId |-> id] @@ data,
                        UserControllerUpdate(DB, actor, id, data))

\* DELETE /users/:id (Admin only): UserController.delete, for a user no other
\* row refers to.
UserDelete ==
    /\ clock < MaxOps
    /\ \E actor \in Actors :
        LET pre == Guard(actor, RequireRole(DB, actor, {"ADMIN"})) IN
        IF pre # OK THEN Reply("UserDelete", actor, 0, 0, pre)
        ELSE \E id \in UserTargets :
                /\ Unreferenced(DB, id)
                /\ Respond("UserDelete", actor, 0, 0, [userId |-> id],
                           UserControllerDelete(DB, actor, id))

ProjectCreateBodies ==
    {[name |-> n] : n \in ProjectNames}
        \cup {[name |-> n, description |-> "text"] : n \in ProjectNames}

\* POST /projects: requireRole('ADMIN'), validate, ProjectController.create
ProjectCreate ==
    /\ clock < MaxOps
    /\ \E actor \in Actors :
        LET pre == Guard(actor, RequireRole(DB, actor, {"ADMIN"})) IN
        IF pre # OK THEN Reply("ProjectCreate", actor, clock + 1, clock + 1, pre)
        ELSE \E data \in ProjectCreateBodies, abortAt \in AbortPoints :
                Respond("ProjectCreate", actor, clock + 1, clock + 1, data,
                        ProjectServiceCreate(DB, clock + 1, data, actor, abortAt))

ProjectPatchVals(k) == IF k = "name" THEN ProjectNames ELSE {NULL, "text"}
\* Bodies that pass updateProjectSchema: any subset of the two keys.
ProjectUpdateBodies ==
    {NoData}
        \cup {("name" :> n) : n \in ProjectPatchVals("name")}
        \cup {("description" :> d) : d \in ProjectPatchVals("description")}
        \cup {("name" :> n) @@ ("description" :> d) :
                 n \in ProjectPatchVals("name"), d \in ProjectPatchVals("description")}

\* PUT /projects/:id: requireRole('ADMIN'), validate, ProjectController.update
ProjectUpdate ==
    /\ clock < MaxOps
    /\ \E actor \in Actors, id \in Targets(projects) :
        LET pre == Guard(actor, RequireRole(DB, actor, {"ADMIN"})) IN
        IF pre # OK THEN Reply("ProjectUpdate", actor, id, id, pre)
        ELSE \E data \in ProjectUpdateBodies, abortAt \in AbortPoints :
                Respond("ProjectUpdate", actor, id, id, data,
                        ProjectServiceUpdate(DB, id, data, actor, abortAt))

\* DELETE /projects/:id: requireRole('ADMIN'), ProjectController.delete
ProjectDelete ==
    /\ clock < MaxOps
    /\ \E actor \in Actors, id \in Targets(projects) :
        LET pre == Guard(actor, RequireRole(DB, actor, {"ADMIN"})) IN
        IF pre # OK THEN Reply("ProjectDelete", actor, id, id, pre)
        ELSE \E abortAt \in AbortPoints :
                Respond("ProjectDelete", actor, id, id, NoData,
                        ProjectServiceDelete(DB, id, actor, abortAt))

\* POST /projects/:id/members: requireRole('ADMIN'), validate, addMember
AddMember ==
    /\ clock < MaxOps
    /\ \E actor \in Actors, pid \in Targets(projects) :
        LET pre == Guard(actor, RequireRole(DB, actor, {"ADMIN"})) IN
        IF pre # OK THEN Reply("AddMember", actor, pid, clock + 1, pre)
        ELSE \E userId \in UserTargets, projectRole \in ProjectRoles,
                abortAt \in AbortPoints :
                Respond("AddMember", actor, pid, clock + 1,
                        [userId |-> userId, projectRole |-> projectRole],
                        ProjectServiceAddMember(DB, clock + 1, pid, userId, projectRole,
                                                actor, abortAt))

\* PATCH /projects/:id/members/:memberId: requireRole('ADMIN'), validate,
\* updateMemberRole
UpdateMemberRole ==
    /\ clock < MaxOps
    /\ \E actor \in Actors, pid \in Targets(projects), memberId \in Targets(members) :
        LET pre == Guard(actor, RequireRole(DB, actor, {"ADMIN"})) IN
        IF pre # OK THEN Reply("UpdateMemberRole", actor, pid, memberId, pre)
        ELSE \E projectRole \in ProjectRoles, abortAt \in AbortPoints :
                Respond("UpdateMemberRole", actor, pid, memberId,
                        [projectRole |-> projectRole],
                        ProjectServiceUpdateMemberRole(DB, pid, memberId, projectRole,
                                                       actor, abortAt))

\* DELETE /projects/:id/members/:memberId: requireRole('ADMIN'), removeMember
RemoveMember ==
    /\ clock < MaxOps
    /\ \E actor \in Actors, pid \in Targets(projects), memberId \in Targets(members) :
        LET pre == Guard(actor, RequireRole(DB, actor, {"ADMIN"})) IN
        IF pre # OK THEN Reply("RemoveMember", actor, pid, memberId, pre)
        ELSE \E abortAt \in AbortPoints :
                Respond("RemoveMember", actor, pid, memberId, NoData,
                        ProjectServiceRemoveMember(DB, pid, memberId, actor, abortAt))

\* GET /projects/:id, /projects/:id/history, /projects/:id/analytics and
\* /projects/:projectId/tasks: requireProjectAccess(), then a read.
ProjectRead ==
    /\ clock < MaxOps
    /\ \E actor \in Actors, pid \in Targets(projects) :
        Reply("ProjectRead", actor, pid, pid,
               Guard(actor, RequireProjectAccess(DB, actor, pid, {})))

\* Pages and page sizes a list request may ask for.
Pages == {1, 2}
PageSizes == {1, 2}

\* GET /projects: authenticate, ProjectController.getAll
\* (getAll(req.user.id, req.user.role === 'ADMIN', page, pageSize)).
ProjectList ==
    /\ clock < MaxOps
    /\ \E actor \in Actors :
        LET pre == Guard(actor, OK) IN
        IF pre # OK THEN Reply("ProjectList", actor, 0, 0, pre)
        ELSE \E page \in Pages, pageSize \in PageSizes :
                LET result == ProjectServiceGetAll(DB, actor, users[actor].role = "ADMIN",
                                                   page, pageSize)
                IN Respond("ProjectList", actor, 0, 0,
                           [projects |-> result.data, meta |-> result.meta],
                           [db |-> DB, code |-> OK])

\* GET /tasks/:id and /tasks/:id/history: requireTaskReadAccess, then a read.
TaskRead ==
    /\ clock < MaxOps
    /\ \E actor \in Actors, id \in Targets(tasks) :
        Reply("TaskRead", actor,
               IF id \in DOMAIN tasks THEN tasks[id].projectId ELSE 0, id,
               Guard(actor, RequireTaskAccess(DB, actor, id, FALSE)))

\* Bodies that pass createTaskSchema: a title and at most one optional key.
CreateTaskVals(k) ==
    IF k = "title" THEN {"fix"}
    ELSE IF k = "description" THEN Descriptions
    ELSE IF k = "priority" THEN Priorities
    ELSE IF k = "dueDate" THEN IsoStrings
    ELSE UserTargets \cup {NULL}
CreateTaskBodies ==
    {("title" :> t) : t \in CreateTaskVals("title")}
        \cup UNION {{("title" :> t) @@ (k :> v) : t \in CreateTaskVals("title"),
                                                  v \in CreateTaskVals(k)} :
                       k \in CreateTaskKeys \ {"title"}}

\* POST /projects/:projectId/tasks: requireProjectWriteAccess, validate,
\* TaskController.create ({...req.body, projectId: req.params.projectId}).
TaskCreate ==
    /\ clock < MaxOps
    /\ \E actor \in Actors, pid \in Targets(projects) :
        LET pre == Guard(actor, RequireProjectWriteAccess(DB, actor, pid)) IN
        IF pre # OK THEN Reply("TaskCreate", actor, pid, clock + 1, pre)
        ELSE \E data \in CreateTaskBodies, abortAt \in AbortPoints :
                Respond("TaskCreate", actor, pid, clock + 1, data,
                        TaskServiceCreate(DB, clock + 1, data, pid, actor, clock + 1,
                                          abortAt))

\* Bodies that pass updateTaskSchema: no key, one key, or title and status.
UpdateTaskVals(k) ==
    IF k = "title" THEN Titles
    ELSE IF k = "description" THEN Descriptions \cup {NULL}
    ELSE IF k = "status" THEN TaskStatuses
    ELSE IF k = "priority" THEN Priorities \cup {NULL}
    ELSE IF k = "dueDate" THEN IsoStrings \cup {NULL}
    ELSE UserTargets \cup {NULL}
UpdateTaskKeys == {"title", "description", "status", "priority", "dueDate", "assigneeId"}
UpdateTaskBodies ==
    {NoData} \cup UNION {{(k :> v) : v \in UpdateTaskVals(k)} : k \in UpdateTaskKeys}
        \cup {("title" :> t) @@ ("status" :> st) : t \in Titles, st \in TaskStatuses}

\* PATCH /tasks/:id: requireTaskWriteAccess, validate, TaskController.update
TaskUpdate ==
    /\ clock < MaxOps
    /\ \E actor \in Actors, id \in Targets(tasks) :
        LET pre == Guard(actor, RequireTaskAccess(DB, actor, id, TRUE))
            pid == IF id \in DOMAIN tasks THEN tasks[id].projectId ELSE 0
        IN
        IF pre # OK THEN Reply("TaskUpdate", actor, pid, id, pre)
        ELSE \E data \in UpdateTaskBodies, abortAt \in AbortPoints :
                Respond("TaskUpdate", actor, pid, id, data,
                        TaskServiceUpdate(DB, id, data, actor, clock + 1, abortAt))

\* DELETE /tasks/:id: requireTaskWriteAccess, TaskController.delete
TaskDelete ==
    /\ clock < MaxOps
    /\ \E actor \in Actors, id \in Targets(tasks) :
        LET pre == Guard(actor, RequireTaskAccess(DB, actor, id, TRUE))
            pid == IF id \in DOMAIN tasks THEN tasks[id].projectId ELSE 0
        IN
        IF pre # OK THEN Reply("TaskDelete", actor, pid, id, pre)
        ELSE \E abortAt \in AbortPoints :
                Respond("TaskDelete", actor, pid, id, NoData,
                        TaskServiceDelete(DB, id, actor, abortAt))

Next ==
    \/ Register
    \/ UserUpdate
    \/ UserDelete
    \/ ProjectCreate
    \/ ProjectUpdate
    \/ ProjectDelete
    \/ AddMember
    \/ UpdateMemberRole
    \/ RemoveMember
    \/ ProjectRead
    \/ ProjectList
    \/ TaskRead
    \/ TaskCreate
    \/ TaskUpdate
    \/ TaskDelete

Spec == Init /\ [][Next]_vars

----------------------------------------------------------------------------
(* Service calls that overlap.  A call that reads before its transaction
   is two steps: the reads, which leave the call in flight with what it
   read, and the transaction, which runs on the store as it is by then.
   calls holds the calls in flight. *)

RemoveAt(seq, i) == SubSeq(seq, 1, i - 1) \o SubSeq(seq, i + 1, Len(seq))

\* POST /projects/:id/members up to the transaction: the guard and the
\* three reads of addMember.
AddMemberCheck ==
    /\ clock < MaxOps
    /\ Len(calls) < MaxCalls
    /\ \E actor \in Actors, pid \in Targets(projects) :
        LET pre == Guard(actor, RequireRole(DB, actor, {"ADMIN"})) IN
        IF pre # OK THEN Reply("AddMember", actor, pid, clock + 1, pre)
        ELSE \E userId \in UserTargets, projectRole \in ProjectRoles :
                LET check == ProjectServiceAddMemberCheck(DB, pid, userId) IN
                IF check # OK
                THEN Respond("AddMember", actor, pid, clock + 1,
                             [userId |-> userId, projectRole |-> projectRole],
                             [db |-> DB, code |-> check])
                ELSE /\ calls' = Append(calls, [op |-> "AddMember", actor |-> actor,
                                                pid |-> pid, userId |-> userId,
                                                projectRole |-> projectRole])
                     /\ UNCHANGED <<users, projects, members, tasks, audit, clock,
                                    last, tokens>>

\* The transaction of an addMember call in flight.
AddMemberCommit ==
    \E i \in 1..Len(calls), abortAt \in AbortPoints :
        LET call == calls[i] IN
        /\ call.op = "AddMember"
        /\ Answer("AddMember", call.actor, call.pid, clock + 1,
                  [userId |-> call.userId, projectRole |-> call.projectRole],
                  ProjectServiceAddMemberTx(DB, clock + 1, call.pid, call.userId,
                                            call.projectRole, call.actor, abortAt))
        /\ calls' = RemoveAt(calls, i)

NextMembers ==
    \/ AddMemberCheck
    \/ AddMemberCommit
    \/ UpdateMemberRole
    \/ RemoveMember

SpecMembers == Init /\ [][NextMembers]_vars

\* A call that passed its reads stays in flight with the row it read.
Begin(op, actor, pid, id, data, current) ==
    /\ calls' = Append(calls, [op |-> op, actor |-> actor, pid |-> pid, id |-> id,
                               data |-> data, current |-> current])
    /\ UNCHANGED <<users, projects, members, tasks, audit, clock, last, tokens>>

\* PATCH /tasks/:id up to the transaction of TaskService.update.
TaskUpdateRead ==
    /\ clock + Len(calls) < MaxOps
    /\ Len(calls) < MaxCalls
    /\ \E actor \in Actors, id \in Targets(tasks) :
        LET pre == Guard(actor, RequireTaskAccess(DB, actor, id, TRUE))
            pid == IF id \in DOMAIN tasks THEN tasks[id].projectId ELSE 0
        IN
        IF pre # OK THEN Reply("TaskUpdate", actor, pid, id, pre)
        ELSE \E data \in UpdateTaskBodies :
                IF TaskServiceUpdateCheck(DB, id, data) # OK
                THEN Respond("TaskUpdate", actor, pid, id, data,
                             [db |-> DB, code |-> TaskServiceUpdateCheck(DB, id, data)])
                ELSE Begin("TaskUpdate", actor, pid, id, data, tasks[id])

\* The transaction of a TaskService.update call in flight.
TaskUpdateCommit ==
    \E i \in 1..Len(calls), abortAt \in AbortPoints :
        LET call == calls[i] IN
        /\ call.op = "TaskUpdate"
        /\ Answer("TaskUpdate", call.actor, call.pid, call.id, call.data,
                  TaskServiceUpdateTx(DB, call.id, call.current, call.data, call.actor,
                                      clock + 1, abortAt))
        /\ calls' = RemoveAt(calls, i)

\* DELETE /tasks/:id up to the transaction of TaskService.delete.
TaskDeleteRead ==
    /\ clock + Len(calls) < MaxOps
    /\ Len(calls) < MaxCalls
    /\ \E actor \in Actors, id \in Targets(tasks) :
        LET pre == Guard(actor, RequireTaskAccess(DB, actor, id, TRUE))
            pid == IF id \in DOMAIN tasks THEN tasks[id].projectId ELSE 0
        IN
        IF pre # OK THEN Reply("TaskDelete", actor, pid, id, pre)
        ELSE Begin("TaskDelete", actor, pid, id, NoData, tasks[id])

\* The transaction of a TaskService.delete call in flight.
TaskDeleteCommit ==
    \E i \in 1..Len(calls), abortAt \in AbortPoints :
        LET call == calls[i] IN
        /\ call.op = "TaskDelete"
        /\ Answer("TaskDelete", call.actor, call.pid, call.id, NoData,
                  TaskServiceDeleteTx(DB, call.id, call.current, call.actor, abortAt))
        /\ calls' = RemoveAt(calls, i)

\* PUT /projects/:id up to the transaction of ProjectService.update.
ProjectUpdateRead ==
    /\ clock + Len(calls) < MaxOps
    /\ Len(calls) < MaxCalls
    /\ \E actor \in Actors, id \in Targets(projects) :
        LET pre == Guard(actor, RequireRole(DB, actor, {"ADMIN"})) IN
        IF pre # OK THEN Reply("ProjectUpdate", actor, id, id, pre)
        ELSE IF id \notin DOMAIN projects
        THEN \E data \in ProjectUpdateBodies :
                Respond("ProjectUpdate", actor, id, id, data,
                        [db |-> DB, code |-> PROJECT_NOT_FOUND])
        ELSE \E data \in ProjectUpdateBodies :
                Begin("ProjectUpdate", actor, id, id, data, projects[id])

\* The transaction of a ProjectService.update call in flight.
ProjectUpdateCommit ==
    \E i \in 1..Len(calls), abortAt \in AbortPoints :
        LET call == calls[i] IN
        /\ call.op = "ProjectUpdate"
        /\ Answer("ProjectUpdate", call.actor, call.pid, call.id, call.data,
                  ProjectServiceUpdateTx(DB, call.id, call.current, call.data,
                                         call.actor, abortAt))
        /\ calls' = RemoveAt(calls, i)

\* DELETE /projects/:id up to the transaction of ProjectService.delete.
ProjectDeleteRead ==
    /\ clock + Len(calls) < MaxOps
    /\ Len(calls) < MaxCalls
    /\ \E actor \in Actors, id \in Targets(projects) :
        LET pre == Guard(actor, RequireRole(DB, actor, {"ADMIN"})) IN
        IF pre # OK THEN Reply("ProjectDelete", actor, id, id, pre)
        ELSE IF id \notin DOMAIN projects
        THEN Reply("ProjectDelete", actor, id, id, PROJECT_NOT_FOUND)
        ELSE Begin("ProjectDelete", actor, id, id, NoData, projects[id])

\* The transaction of a ProjectService.delete call in flight.
ProjectDeleteCommit ==
    \E i \in 1..Len(calls), abortAt \in AbortPoints :
        LET call == calls[i] IN
        /\ call.op = "ProjectDelete"
        /\ Answer("ProjectDelete", call.actor, call.pid, call.id, NoData,
                  ProjectServiceDeleteTx(DB, call.id, call.current, call.actor, abortAt))
        /\ calls' = RemoveAt(calls, i)

NextUpdates ==
    \/ TaskUpdateRead
    \/ TaskUpdateCommit
    \/ TaskDeleteRead
    \/ TaskDeleteCommit
    \/ ProjectUpdateRead
    \/ ProjectUpdateCommit
    \/ ProjectDeleteRead
    \/ ProjectDeleteCommit

SpecUpdates == Init /\ [][NextUpdates]_vars

\* GET /projects/:id/analytics: requireProjectAccess(), then
\* getProjectAnalytics starts its five queries; the two new Date() of the
\* overdue queries are taken here, before the first await.
AnalyticsBegin ==
    /\ clock + Len(calls) < MaxOps
    /\ Len(calls) < MaxCalls
    /\ \E actor \in Actors, pid \in Targets(projects) :
        LET pre == Guard(actor, RequireProjectAccess(DB, actor, pid, {})) IN
        IF pre # OK THEN Reply("Analytics", actor, pid, pid, pre)
        ELSE Begin("Analytics", actor, pid, pid, NoData, [now |-> clock + 1])

\* One of the queries of a getProjectAnalytics call runs on the store as it
\* is now; Promise.all fixes no order among the five.
AnalyticsQuery ==
    /\ \E i \in 1..Len(calls) :
        /\ calls[i].op = "Analytics"
        /\ \E query \in AnalyticsQueries \ DOMAIN calls[i].data :
            calls' = [calls EXCEPT ![i].data =
                         @ @@ (query :> AnalyticsQueryResult(query, DB, calls[i].pid,
                                                             calls[i].current.now))]
    /\ UNCHANGED <<users, projects, members, tasks, audit, clock, last, tokens>>

\* Promise.all resolves: the five results are the response.
AnalyticsRespond ==
    \E i \in 1..Len(calls) :
        /\ calls[i].op = "Analytics"
        /\ DOMAIN calls[i].data = AnalyticsQueries
        /\ Answer("Analytics", calls[i].actor, calls[i].pid, calls[i].pid,
                  calls[i].data, [db |-> DB, code |-> OK])
        /\ calls' = RemoveAt(calls, i)

\* A task request handled while the calls in flight wait for the store.
TaskWrite ==
    /\ clock + Len(calls) < MaxOps
    /\ (TaskCreate \/ TaskUpdate \/ TaskDelete)

NextAnalytics ==
    \/ AnalyticsBegin
    \/ AnalyticsQuery
    \/ AnalyticsRespond
    \/ TaskWrite

SpecAnalytics == Init /\ [][NextAnalytics]_vars

----------------------------------------------------------------------------
(* The analytics of a project whose completed tasks took given times. *)

\* Days from createdAt to completedAt of a completed task: the seed draws
\* 1 to 14 whole days and cuts completedAt at now.
DurationsInDays == {0, 1, 3, 7, 8}
\* Numbers of completed tasks the project starts with.
CompletedCounts == {0, 1, 2, 3, 7}
\* The day the completed tasks were created.
SeedCreatedAt == -14

\* The seeded store with n completed tasks next to its TODO task, one for
\* each element of a multiset of durations.
InitDurations ==
    /\ users = [u \in SeedUsers |->
                  IF u = "u1" THEN [email |-> "e1", role |-> "ADMIN"]
                  ELSE IF u = "u2" THEN [email |-> "e2", role |-> "MEMBER"]
                  ELSE [email |-> "e3", role |-> "VIEWER"]]
    /\ projects = (0 :> [name |-> "alpha", description |-> "text"])
    /\ members = (0 :> [projectId |-> 0, userId |-> "u1", projectRole |-> "MEMBER"])
              @@ (-1 :> [projectId |-> 0, userId |-> "u2", projectRole |-> "MEMBER"])
              @@ (-2 :> [projectId |-> 0, userId |-> "u3", projectRole |-> "VIEWER"])
    /\ \E n \in CompletedCounts :
        \E days \in [1..n -> DurationsInDays] :
            /\ \A i \in 1..(n - 1) : days[i] <= days[i + 1]
            /\ tasks = [t \in (0 - n)..0 |->
                          IF t = 0 THEN SeedTask("TODO")
                          ELSE [SeedTask("DONE") EXCEPT
                                   !.createdAt = SeedCreatedAt,
                                   !.completedAt = {SeedCreatedAt + days[0 - t]}]]
    /\ audit = <<>>
    /\ clock = 0
    /\ last = [op |-> "Init", actor |-> NULL, code |-> OK, pid |-> 0, id |-> 0,
               data |-> NoData, abortAt |-> "none"]
    /\ calls = <<>>
    /\ tokens = [u \in SeedUsers |-> users[u].role]

\* GET /projects/:id/analytics handled with no other request in between:
\* requireProjectAccess(), then the five queries of getProjectAnalytics.
ProjectAnalytics ==
    /\ clock < MaxOps
    /\ \E actor \in Actors, pid \in Targets(projects) :
        LET pre == Guard(actor, RequireProjectAccess(DB, actor, pid, {})) IN
        IF pre # OK THEN Reply("Analytics", actor, pid, pid, pre)
        ELSE Respond("Analytics", actor, pid, pid,
                     [query \in AnalyticsQueries |->
                         AnalyticsQueryResult(query, DB, pid, clock + 1)],
                     [db |-> DB, code |-> OK])

NextDurations == ProjectAnalytics

SpecDurations == InitDurations /\ [][NextDurations]_vars

----------------------------------------------------------------------------
(* The list routes on stores of many rows. *)

\* Numbers of rows a store starts with, and the pages and page sizes a
\* list request asks for.
RowCounts == {0, 1, 2, 5, 19, 20, 21, 40, 45}
ListPages == {1, 2, 3, 4}
ListPageSizes == {1, 7, 20, 100}
ListFilters == {NoData, [status |-> "TODO"], [assigneeId |-> "u2"], [search |-> "fix"]}
\* Number of list requests handled in one behaviour.
MaxListOps == 1

\* The seeded store grown to n projects and n tasks of the first project;
\* u2 is a member of every project.
InitPages ==
    /\ users = [u \in SeedUsers |->
                  IF u = "u1" THEN [email |-> "e1", role |-> "ADMIN"]
                  ELSE IF u = "u2" THEN [email |-> "e2", role |-> "MEMBER"]
                  ELSE [email |-> "e3", role |-> "VIEWER"]]
    /\ \E n \in RowCounts :
        /\ projects = [p \in (1 - n)..0 |-> [name |-> "alpha", description |-> "text"]]
        /\ members = [m \in (-1 - n)..(IF n = 0 THEN -2 - n ELSE 0) |->
                        IF m = 0 THEN [projectId |-> 0, userId |-> "u1",
                                       projectRole |-> "MEMBER"]
                        ELSE IF m = -1 THEN [projectId |-> 0, userId |-> "u2",
                                             projectRole |-> "MEMBER"]
                        ELSE IF m = -2 THEN [projectId |-> 0, userId |-> "u3",
                                             projectRole |-> "VIEWER"]
                        ELSE [projectId |-> m + 2, userId |-> "u2",
                              projectRole |-> "MEMBER"]]
        /\ tasks = [t \in (1 - n)..0 |->
                      [SeedTask(IF t % 3 = 0 THEN "TODO"
                                ELSE IF t % 3 = 1 THEN "IN_PROGRESS" ELSE "DONE")
                          EXCEPT !.createdAt = t]]
    /\ audit = <<>>
    /\ clock = 0
    /\ last = [op |-> "Init", actor |-> NULL, code |-> OK, pid |-> 0, id |-> 0,
               data |-> NoData, abortAt |-> "none"]
    /\ calls = <<>>
    /\ tokens = [u \in SeedUsers |-> users[u].role]

\* GET /projects?page=&pageSize=: authenticate, ProjectController.getAll
ProjectListPage ==
    /\ clock < MaxListOps
    /\ \E actor \in Actors :
        LET pre == Guard(actor, OK) IN
        IF pre # OK THEN Reply("ProjectList", actor, 0, 0, pre)
        ELSE \E page \in ListPages, pageSize \in ListPageSizes :
                LET result == ProjectServiceGetAll(DB, actor, users[actor].role = "ADMIN",
                                                   page, pageSize)
                IN Respond("ProjectList", actor, 0, 0,
                           [query |-> [page |-> page, pageSize |-> pageSize],
                            rows |-> result.data, meta |-> result.meta],
                           [db |-> DB, code |-> OK])

\* GET /projects/:projectId/tasks?page=&pageSize=&status=&assigneeId=&search=:
\* requireProjectAccess(), TaskController.getByProject
TaskListPage ==
    /\ clock < MaxListOps
    /\ \E actor \in Actors, pid \in Targets(projects) :
        LET pre == Guard(actor, RequireProjectAccess(DB, actor, pid, {})) IN
        IF pre # OK THEN Reply("TaskList", actor, pid, pid, pre)
        ELSE \E page \in ListPages, pageSize \in ListPageSizes, filter \in ListFilters :
                LET result == TaskServiceGetByProjectId(DB, pid, page, pageSize, filter)
                IN Respond("TaskList", actor, pid, pid,
                           [query |-> [page |-> page, pageSize |-> pageSize,
                                       filter |-> filter],
                            rows |-> result.data, meta |-> result.meta],
                           [db |-> DB, code |-> OK])

NextPages ==
    \/ ProjectListPage
    \/ TaskListPage

SpecPages == InitPages /\ [][NextPages]_vars

----------------------------------------------------------------------------
(* The task routes with the request body as it arrives: validate() calls
   schema.parse(req.body) and drops the result, so the keys the zod object
   does not name stay in req.body and reach the controller. *)

\* Bodies that pass createTaskSchema and carry a reporterId besides.
CreateTaskHttpBodies ==
    {("title" :> t) @@ ("reporterId" :> u) : t \in CreateTaskVals("title"),
                                             u \in UserTargets}

\* Bodies that pass updateTaskSchema and carry a reporterId or a projectId
\* besides.
UpdateTaskHttpBodies ==
    {b @@ ("reporterId" :> u) :
        b \in {NoData} \cup {("title" :> t) : t \in Titles}
                       \cup {("status" :> st) : st \in TaskStatuses},
        u \in UserTargets}
    \cup {b @@ ("projectId" :> p) :
            b \in {NoData} \cup {("title" :> t) : t \in Titles},
            p \in Targets(projects) \cup {-1}}

\* POST /projects/:projectId/tasks with req.body as sent.
TaskCreateHttp ==
    /\ clock < MaxOps
    /\ \E actor \in Actors, pid \in Targets(projects) :
        LET pre == Guard(actor, RequireProjectWriteAccess(DB, actor, pid)) IN
        IF pre # OK THEN Reply("TaskCreate", actor, pid, clock + 1, pre)
        ELSE \E data \in CreateTaskBodies \cup CreateTaskHttpBodies,
                abortAt \in AbortPoints :
                Respond("TaskCreate", actor, pid, clock + 1, data,
                        TaskServiceCreate(DB, clock + 1, data, pid, actor, clock + 1,
                                          abortAt))

\* PATCH /tasks/:id with req.body as sent.
TaskUpdateHttp ==
    /\ clock < MaxOps
    /\ \E actor \in Actors, id \in Targets(tasks) :
        LET pre == Guard(actor, RequireTaskAccess(DB, actor, id, TRUE))
            pid == IF id \in DOMAIN tasks THEN tasks[id].projectId ELSE 0
        IN
        IF pre # OK THEN Reply("TaskUpdate", actor, pid, id, pre)
        ELSE \E data \in UpdateTaskBodies \cup UpdateTaskHttpBodies,
                abortAt \in AbortPoints :
                Respond("TaskUpdate", actor, pid, id, data,
                        TaskServiceUpdate(DB, id, data, actor, clock + 1, abortAt))

NextHttp ==
    \/ TaskCreateHttp
    \/ TaskUpdateHttp
    \/ TaskDelete
    \/ ProjectCreate

SpecHttp == Init /\ [][NextHttp]_vars

----------------------------------------------------------------------------
(* Tokens.  login signs the user's id and role into a token that stays valid
   while the role is changed or the user deleted; tokens holds, per user,
   the role in the token that user's client keeps. *)

\* A user registered (POST /auth/register) after the seed, referred to by no
\* other row.
RegisteredUser == "n0"
\* Emails a login may carry: those of the users stored, and one of no user.
LoginEmails == {users[u].email : u \in DOMAIN users} \cup {"e0"}

\* The seeded store with one user registered since; every user has logged in.
InitTokens ==
    /\ \E role \in UserRoles :
        users = [u \in SeedUsers \cup {RegisteredUser} |->
                   IF u = "u1" THEN [email |-> "e1", role |-> "ADMIN"]
                   ELSE IF u = "u2" THEN [email |-> "e2", role |-> "MEMBER"]
                   ELSE IF u = "u3" THEN [email |-> "e3", role |-> "VIEWER"]
                   ELSE [email |-> "e4", role |-> role]]
    /\ projects = (0 :> [name |-> "alpha", description |-> "text"])
    /\ members = (0 :> [projectId |-> 0, userId |-> "u1", projectRole |-> "MEMBER"])
              @@ (-1 :> [projectId |-> 0, userId |-> "u2", projectRole |-> "MEMBER"])
              @@ (-2 :> [projectId |-> 0, userId |-> "u3", projectRole |-> "VIEWER"])
    /\ tasks = (0 :> SeedTask("TODO"))
    /\ audit = <<>>
    /\ clock = 0
    /\ last = [op |-> "Init", actor |-> NULL, code |-> OK, pid |-> 0, id |-> 0,
               data |-> NoData, abortAt |-> "none"]
    /\ calls = <<>>
    /\ tokens = [u \in DOMAIN users |-> users[u].role]

\* POST /auth/login: validate(loginSchema), AuthController.login
Login ==
    /\ clock < MaxOps
    /\ \E email \in LoginEmails, passwordValid \in BOOLEAN :
        LET res == AuthServiceLogin(DB, email, passwordValid) IN
        /\ tokens' = IF res.code = OK
                      THEN [u \in DOMAIN tokens \cup {res.token.id} |->
                               IF u = res.token.id THEN res.token.role ELSE tokens[u]]
                      ELSE tokens
        /\ clock' = clock + 1
        /\ last' = [op |-> "Login", actor |-> NULL, code |-> res.code, pid |-> 0,
                    id |-> 0, data |-> [email |-> email], abortAt |-> "none"]
        /\ UNCHANGED <<users, projects, members, tasks, audit, calls>>

NextTokens ==
    \/ Login
    \/ Next

SpecTokens == InitTokens /\ [][NextTokens]_vars

----------------------------------------------------------------------------
(* Properties *)

\* Codes with which authenticate or a route guard stops a request.
GuardDenials == {AUTHZ_ROLE_REQUIRED, AUTHZ_PROJECT_ACCESS_DENIED, AUTHZ_WRITE_ACCESS_REQUIRED}

\* C1: when the store aborts the transaction of a service write (after the
\* entity write, after the audit write or at commit), no table shows any
\* effect of the call and the caller gets an error, not a result.
TransactionIsAtomic ==
    [][last'.abortAt # "none" =>
          /\ users' = users /\ projects' = projects /\ members' = members
          /\ tasks' = tasks /\ audit' = audit
          /\ last'.code # OK]_vars

\* A project delete whose transaction the store aborted between the delete
\* and the audit write.
TransactionIsAtomicWitness ==
    /\ last.op = "ProjectDelete"
    /\ last.abortAt = "afterEntity"
    /\ last.id \in DOMAIN projects

\* C2: every assigned task's assignee is a global ADMIN or a MEMBER of the
\* task's project, in every reachable state.
AssigneeAlwaysEligible ==
    \A t \in DOMAIN tasks :
        tasks[t].assigneeId # NULL =>
            /\ tasks[t].assigneeId \in DOMAIN users
            /\ \/ users[tasks[t].assigneeId].role = "ADMIN"
               \/ GetUserProjectRole(DB, tasks[t].projectId, tasks[t].assigneeId) = "MEMBER"

\* C3: the guards' decision for an existing user on an existing project or
\* task.  Reads pass for a global ADMIN and for a project MEMBER or VIEWER;
\* task writes pass for a global ADMIN and for a project MEMBER; every other
\* requester is denied.
GuardsFollowTable ==
    [][LET actor == last'.actor
           role == GetUserProjectRole(DB, last'.pid, actor)
           admin == users[actor].role = "ADMIN"
           passed == last'.code \notin GuardDenials
       IN actor \in DOMAIN users =>
           /\ (last'.op = "ProjectRead" /\ last'.pid \in DOMAIN projects) =>
                 (passed <=> (admin \/ role \in {"MEMBER", "VIEWER"}))
           /\ (last'.op = "TaskRead" /\ last'.id \in DOMAIN tasks) =>
                 (passed <=> (admin \/ role \in {"MEMBER", "VIEWER"}))
           /\ (last'.op = "TaskCreate" /\ last'.pid \in DOMAIN projects) =>
                 (passed <=> (admin \/ role = "MEMBER"))
           /\ (last'.op \in {"TaskUpdate", "TaskDelete"} /\ last'.id \in DOMAIN tasks) =>
                 (passed <=> (admin \/ role = "MEMBER"))]_vars

\* A user whose global role is MEMBER and whose project role is VIEWER was
\* refused a task update.
GuardsFollowTableWitness ==
    /\ last.op = "TaskUpdate"
    /\ last.code = AUTHZ_WRITE_ACCESS_REQUIRED
    /\ last.actor \in DOMAIN users
    /\ users[last.actor].role = "MEMBER"
    /\ GetUserProjectRole(DB, last.pid, last.actor) = "VIEWER"

\* C4: a register request of an authenticated user whose global role is not
\* ADMIN is denied and adds no user row.
RegisterOnlyByAdmin ==
    [][(last'.op = "Register" /\ last'.actor \in DOMAIN users
            /\ users[last'.actor].role # "ADMIN") =>
          (users' = users /\ last'.code # OK)]_vars

\* C5: a task has a completedAt exactly when its status is DONE; an update
\* into DONE sets completedAt, an update out of DONE clears it, and every
\* other step leaves it as it was.
CompletedAtIffDone ==
    /\ \A t \in DOMAIN tasks : (tasks[t].completedAt # {}) <=> (tasks[t].status = "DONE")
    /\ [][/\ \A t \in DOMAIN tasks' :
                 (tasks'[t].completedAt # {}) <=> (tasks'[t].status = "DONE")
          /\ \A t \in DOMAIN tasks \cap DOMAIN tasks' :
                 IF tasks[t].status # "DONE" /\ tasks'[t].status = "DONE"
                 THEN tasks'[t].completedAt = {clock'}
                 ELSE IF tasks[t].status = "DONE" /\ tasks'[t].status # "DONE"
                 THEN tasks'[t].completedAt = {}
                 ELSE tasks'[t].completedAt = tasks[t].completedAt]_vars

\* A task that was DONE was moved back to another status by an update.
CompletedAtIffDoneWitness ==
    /\ last.op = "TaskUpdate" /\ last.code = OK
    /\ last.id \in DOMAIN tasks
    /\ tasks[last.id].status # "DONE" /\ tasks[last.id].completedAt = {}
    /\ audit # <<>>
    /\ "status" \in DOMAIN audit[Len(audit)].details
    /\ audit[Len(audit)].details["status"].old = "DONE"

\* C6: a successful create, delete, addMember or removeMember appends exactly
\* one audit row and a successful update or updateMemberRole one or none;
\* the row's actor is the caller's actorId, and it names the Task for task
\* operations and the Project for project and member operations.
OneAuditRowPerWrite ==
    [][LET op == last'.op
           grown == Len(audit') - Len(audit)
           row == audit'[Len(audit')]
       IN (last'.code = OK /\ op \notin {"Register", "UserUpdate", "UserDelete",
                                           "ProjectRead", "ProjectList",
                                           "TaskRead"}) =>
           /\ op \in {"ProjectCreate", "ProjectDelete", "AddMember", "RemoveMember",
                      "TaskCreate", "TaskDelete"} => grown = 1
           /\ op \in {"ProjectUpdate", "UpdateMemberRole", "TaskUpdate"} => grown \in {0, 1}
           /\ grown = 1 =>
                 /\ row.actorId = last'.actor
                 /\ IF op \in {"TaskCreate", "TaskUpdate", "TaskDelete"}
                    THEN row.entityType = "Task" /\ row.entityId = last'.id
                    ELSE row.entityType = "Project" /\ row.entityId = last'.pid]_vars

\* A member was removed and the removal logged against the project.
OneAuditRowPerWriteWitness ==
    /\ last.op = "RemoveMember" /\ last.code = OK
    /\ last.id \notin DOMAIN members
    /\ audit # <<>>
    /\ audit[Len(audit)].entityType = "Project"
    /\ audit[Len(audit)].entityId = last.pid
    /\ audit[Len(audit)].actorId = last.actor

\* C7: the audit log only grows; every row stays where it is with the fields
\* it was written with, also when the task or project it describes is
\* deleted.
AuditLogOnlyGrows ==
    [][/\ Len(audit') >= Len(audit)
       /\ SubSeq(audit', 1, Len(audit)) = audit]_vars

\* A project was deleted after an audit row about it had been written.
AuditLogOnlyGrowsWitness ==
    /\ last.op = "ProjectDelete" /\ last.code = OK
    /\ Len(audit) = 2
    /\ audit[1].entityType = "Project" /\ audit[1].entityId = last.id
    /\ last.id \notin DOMAIN projects

\* C8: an update whose patch supplies only values equal to the stored ones
\* appends no audit row.  A dueDate in a patch is the ISO string of an
\* instant; it equals the stored one when it denotes the stored instant.
NoOpPatchNotAudited ==
    [][/\ (/\ last'.op = "ProjectUpdate" /\ last'.code = OK
           /\ \A f \in DOMAIN last'.data : last'.data[f] = projects[last'.id][f])
          => audit' = audit
       /\ (/\ last'.op = "TaskUpdate" /\ last'.code = OK
           /\ \A f \in DOMAIN last'.data :
                 IF f = "dueDate"
                 THEN StoreDate(last'.data[f]) = tasks[last'.id].dueDate
                 ELSE last'.data[f] = tasks[last'.id][f])
          => audit' = audit]_vars

AssigneeAcceptedIffEligible ==
    [][(/\ last'.op \in {"TaskCreate", "TaskUpdate"}
        /\ "assigneeId" \in DOMAIN last'.data
        /\ last'.data["assigneeId"] \in DOMAIN users
        /\ last'.pid \in DOMAIN projects
        /\ last'.abortAt = "none") =>
          ((last'.code = OK) <=>
              \/ users[last'.data["assigneeId"]].role = "ADMIN"
              \/ GetUserProjectRole(DB, last'.pid, last'.data["assigneeId"]) = "MEMBER")]_vars

\* C11: a task create whose non-null assignee is rejected writes no task row
\* and no audit row, and its code names the cause: ASSIGNEE_NOT_FOUND for an
\* id no user has, ASSIGNEE_NOT_IN_PROJECT for a user who is not a global
\* ADMIN and has no membership in the project, VIEWER_CANNOT_BE_ASSIGNED for
\* a user whose role in the project is VIEWER; the three codes differ.
AssigneeRejectionsDistinct ==
    [][(/\ last'.op = "TaskCreate"
        /\ "assigneeId" \in DOMAIN last'.data
        /\ last'.data["assigneeId"] # NULL) =>
          LET x == last'.data["assigneeId"]
              role == GetUserProjectRole(DB, last'.pid, x)
              code == last'.code
          IN /\ (code = ASSIGNEE_NOT_FOUND) <=> (x \notin DOMAIN users /\ role = NULL)
             /\ (code = ASSIGNEE_NOT_IN_PROJECT) <=>
                   (x \in DOMAIN users /\ role = NULL /\ users[x].role # "ADMIN")
             /\ (code = VIEWER_CANNOT_BE_ASSIGNED) <=> (role = "VIEWER")
             /\ code \in {ASSIGNEE_NOT_FOUND, ASSIGNEE_NOT_IN_PROJECT,
                           VIEWER_CANNOT_BE_ASSIGNED} =>
                   (tasks' = tasks /\ audit' = audit)
             /\ Cardinality({ASSIGNEE_NOT_FOUND, ASSIGNEE_NOT_IN_PROJECT,
                             VIEWER_CANNOT_BE_ASSIGNED}) = 3]_vars

\* A task create naming an existing user outside the project was rejected.
AssigneeRejectionsDistinctWitness ==
    /\ last.op = "TaskCreate"
    /\ last.code = ASSIGNEE_NOT_IN_PROJECT
    /\ last.pid \in DOMAIN projects
    /\ last.data["assigneeId"] \in DOMAIN users
    /\ GetUserProjectRole(DB, last.pid, last.data["assigneeId"]) = NULL
    /\ last.id \notin DOMAIN tasks

\* C13: addMember for a pair that already has a membership row fails with
\* MEMBER_ALREADY_EXISTS, appends no audit row and leaves the membership
\* rows, the existing role included, as they were.
AddMemberTwiceRejected ==
    [][(/\ last'.op = "AddMember"
        /\ "userId" \in DOMAIN last'.data
        /\ last'.pid \in DOMAIN projects
        /\ last'.data["userId"] \in DOMAIN users
        /\ GetUserProjectRole(DB, last'.pid, last'.data["userId"]) # NULL) =>
          /\ last'.code = MEMBER_ALREADY_EXISTS
          /\ audit' = audit
          /\ members' = members]_vars

\* addMember with role VIEWER was refused for a user who is a MEMBER of the
\* project, and the user still is.
AddMemberTwiceRejectedWitness ==
    /\ last.op = "AddMember"
    /\ last.code = MEMBER_ALREADY_EXISTS
    /\ last.data["projectRole"] = "VIEWER"
    /\ GetUserProjectRole(DB, last.pid, last.data["userId"]) = "MEMBER"

\* C14 as stated: a user update aimed at the requesting actor that supplies a
\* role is rejected and changes nothing, whatever the role supplied.
SelfRoleUpdateRejected ==
    [][(/\ last'.op = "UserUpdate"
        /\ "role" \in DOMAIN last'.data
        /\ last'.data["userId"] = last'.actor) =>
          (last'.code # OK /\ users' = users)]_vars

\* C14 amended: such a request is rejected (400) exactly when the supplied
\* role differs from the actor's stored role; supplying the stored role is
\* accepted.  Either way the user rows keep their roles.
SelfRoleChangeRejected ==
    [][(/\ last'.op = "UserUpdate"
        /\ "role" \in DOMAIN last'.data
        /\ last'.data["userId"] = last'.actor) =>
          /\ users' = users
          /\ IF last'.data["role"] # users[last'.actor].role
             THEN last'.code = HTTP_400
             ELSE last'.code = OK]_vars

\* An ADMIN asked for another role for themself and was refused.
SelfRoleChangeRejectedWitness ==
    /\ last.op = "UserUpdate"
    /\ last.code = HTTP_400
    /\ last.data["userId"] = last.actor
    /\ last.data["role"] # users[last.actor].role

\* C15: a successful project delete leaves no task and no membership of the
\* project and appends a Project DELETE row whose details.name is the name
\* the project had; in every later state the project's history query still
\* returns that row, and the project has no task or membership row.
DeletedProjectLeavesSnapshot ==
    [][/\ (last'.op = "ProjectDelete" /\ last'.code = OK) =>
            LET row == audit'[Len(audit')] IN
            /\ Len(audit') = Len(audit) + 1
            /\ row.entityType = "Project" /\ row.entityId = last'.id
            /\ row.action = "DELETE"
            /\ row.details.name = projects[last'.id].name
       /\ \A i \in 1..Len(audit') :
            (audit'[i].entityType = "Project" /\ audit'[i].action = "DELETE") =>
                LET p == audit'[i].entityId
                    d == [users |-> users', projects |-> projects', members |-> members',
                          tasks |-> tasks', audit |-> audit']
                IN /\ p \notin DOMAIN projects'
                   /\ \A t \in DOMAIN tasks' : tasks'[t].projectId # p
                   /\ \A m \in DOMAIN members' : members'[m].projectId # p
                   /\ audit'[i] \in Range(ProjectServiceGetHistory(d, p, 1,
                                                                    DefaultPageSize).data)]_vars

\* The seeded project, which had a task and members, was deleted by an
\* earlier request; its DELETE row is in the log with the project's name.
DeletedProjectLeavesSnapshotWitness ==
    /\ last.op # "ProjectDelete"
    /\ 0 \notin DOMAIN projects
    /\ Len(audit) >= 1
    /\ audit[1].entityType = "Project" /\ audit[1].action = "DELETE"
    /\ audit[1].entityId = 0 /\ audit[1].details.name = "alpha"

\* C18: over all its pages getAll ranges over every project when isAdmin is
\* true and over exactly the projects with a membership row of userId when
\* it is false; meta.total is the size of that set on every page.
GetAllShowsOwnProjects ==
    \A userId \in UserTargets, isAdmin \in BOOLEAN, pageSize \in PageSizes :
        LET visible == IF isAdmin THEN DOMAIN projects
                       ELSE {p \in DOMAIN projects :
                                \E m \in DOMAIN members : /\ members[m].projectId = p
                                                           /\ members[m].userId = userId}
            result(page) == ProjectServiceGetAll(DB, userId, isAdmin, page, pageSize)
            pages == 1..(Cardinality(DOMAIN projects) + 1)
        IN /\ UNION {Range(result(page).data) : page \in pages} = visible
           /\ \A page \in pages : result(page).meta.total = Cardinality(visible)
           /\ \A page \in pages :
                 (page > result(page).meta.totalPages) => (result(page).data = <<>>)

\* A user who is not ADMIN listed the projects while a project existed that
\* they are no member of; the count they got leaves it out.
GetAllShowsOwnProjectsWitness ==
    /\ last.op = "ProjectList" /\ last.code = OK
    /\ users[last.actor].role # "ADMIN"
    /\ \E p \in DOMAIN projects : GetUserProjectRole(DB, p, last.actor) = NULL
    /\ last.data.meta.total >= 1
    /\ last.data.meta.total < Cardinality(DOMAIN projects)

\* C17: no request changes the reporterId of a task, and a task a request
\* creates has the request's authenticated actor as its reporterId, whatever
\* the request body holds.
ReporterIsCreator ==
    [][/\ \A t \in DOMAIN tasks \cap DOMAIN tasks' :
            tasks'[t].reporterId = tasks[t].reporterId
       /\ \A t \in DOMAIN tasks' \ DOMAIN tasks :
            tasks'[t].reporterId = last'.actor]_vars

\* C12: under every interleaving of addMember calls and member operations
\* a (projectId, userId) pair has at most one ProjectMember row, and a step
\* commits as many memberAdded audit rows as it creates member rows.
MemberPairUnique ==
    /\ \A m1, m2 \in DOMAIN members :
          (/\ members[m1].projectId = members[m2].projectId
           /\ members[m1].userId = members[m2].userId) => m1 = m2
    /\ [][LET created == DOMAIN members' \ DOMAIN members
              added == {i \in (Len(audit) + 1)..Len(audit') :
                           "memberAdded" \in DOMAIN audit'[i].details}
          IN /\ Cardinality(created) <= 1
             /\ Cardinality(added) = Cardinality(created)
             /\ \A m1, m2 \in DOMAIN members' :
                   (/\ members'[m1].projectId = members'[m2].projectId
                    /\ members'[m1].userId = members'[m2].userId) => m1 = m2]_vars

\* Two addMember calls for one pair passed their reads while the pair had
\* no row; the first transaction created the row, the second failed on the
\* unique key.
MemberPairUniqueWitness ==
    /\ last.op = "AddMember" /\ last.code = INTERNAL_ERROR /\ last.abortAt = "none"
    /\ \E m \in DOMAIN members : /\ m > 0
                                 /\ members[m].projectId = last.pid
                                 /\ members[m].userId = last.data.userId
    /\ \E i \in 1..Len(audit) :
          /\ "memberAdded" \in DOMAIN audit[i].details
          /\ audit[i].details.memberAdded.userId = last.data.userId

\* The step is the transaction of the i-th call in flight.
Committed(i) ==
    /\ i \in 1..Len(calls)
    /\ calls' = RemoveAt(calls, i)
    /\ clock' = clock + 1
    /\ last'.op = calls[i].op /\ last'.actor = calls[i].actor /\ last'.id = calls[i].id

\* The step is the transaction of an update call in flight on a row that is
\* present, and the store does not abort it.
UpdateCommitted(i) ==
    /\ Committed(i)
    /\ last'.abortAt = "none"
    /\ \/ calls[i].op = "TaskUpdate" /\ calls[i].id \in DOMAIN tasks
       \/ calls[i].op = "ProjectUpdate" /\ calls[i].id \in DOMAIN projects

\* The row of the call holds every value of the call's patch.
PatchStored(call) ==
    LET row == IF call.op = "TaskUpdate" THEN tasks'[call.id] ELSE projects'[call.id] IN
    \A k \in DOMAIN call.data :
        row[k] = IF k = "dueDate" THEN StoreDate(call.data[k]) ELSE call.data[k]

\* The step appends one audit UPDATE row of the call's entity and actor.
OwnRowAppended(call) ==
    /\ Len(audit') = Len(audit) + 1
    /\ SubSeq(audit', 1, Len(audit)) = audit
    /\ audit'[Len(audit')].entityType = (IF call.op = "TaskUpdate" THEN "Task" ELSE "Project")
    /\ audit'[Len(audit')].entityId = call.id
    /\ audit'[Len(audit')].action = "UPDATE"
    /\ audit'[Len(audit')].actorId = call.actor

AbsentRowIsNotFound ==
    [][(/\ clock' = clock + 1
        /\ last'.code \notin GuardDenials \cup {AUTH_USER_NOT_FOUND}
        /\ \/ last'.op \in {"TaskUpdate", "TaskDelete"} /\ last'.id \notin DOMAIN tasks
           \/ last'.op \in {"ProjectUpdate", "ProjectDelete"}
                 /\ last'.id \notin DOMAIN projects)
       => /\ last'.code = (IF last'.op \in {"TaskUpdate", "TaskDelete"}
                           THEN TASK_NOT_FOUND ELSE PROJECT_NOT_FOUND)
          /\ UNCHANGED <<users, projects, members, tasks, audit>>]_vars

\* C20: the results getProjectAnalytics returns fit one snapshot of the
\* project's tasks: overdueTasks has min(5, overdueCount) rows, overdueCount
\* is at most TODO + IN_PROGRESS of tasksByStatus, and the distribution
\* counts sum to at most DONE of tasksByStatus.
AnalyticsOfOneSnapshot ==
    (last.op = "Analytics" /\ last.code = OK) =>
        LET a == last.data IN
        /\ Len(a.overdueTasks) = (IF a.overdueCount < OverdueLimit THEN a.overdueCount
                                  ELSE OverdueLimit)
        /\ a.overdueCount <= a.tasksByStatus["TODO"] + a.tasksByStatus["IN_PROGRESS"]
        /\ a.completionTimeDistribution["< 1 Day"]
             + a.completionTimeDistribution["1-3 Days"]
             + a.completionTimeDistribution["3-7 Days"]
             + a.completionTimeDistribution["> 7 Days"] <= a.tasksByStatus["DONE"]

\* C21: a list response has meta.page and meta.pageSize equal to the
\* request's, meta.totalPages = ceil(total / pageSize), and exactly
\* min(pageSize, max(0, total - (page - 1) * pageSize)) rows, total being
\* the number of rows the query matches.
PageArithmetic ==
    [][(last'.op \in {"ProjectList", "TaskList"} /\ last'.code = OK) =>
        LET q == last'.data.query
            m == last'.data.meta
            total == IF last'.op = "TaskList"
                     THEN Cardinality(TaskWhere(DB, last'.pid, q.filter))
                     ELSE IF users[last'.actor].role = "ADMIN"
                     THEN Cardinality(DOMAIN projects)
                     ELSE Cardinality({p \in DOMAIN projects :
                                          GetUserProjectRole(DB, p, last'.actor) # NULL})
            rest == total - (q.page - 1) * q.pageSize
        IN /\ m.total = total
           /\ m.page = q.page /\ m.pageSize = q.pageSize
           /\ m.totalPages * q.pageSize >= total
           /\ m.totalPages = 0 \/ (m.totalPages - 1) * q.pageSize < total
           /\ Len(last'.data.rows) = (IF rest <= 0 THEN 0
                                      ELSE IF rest < q.pageSize THEN rest
                                      ELSE q.pageSize)]_vars

\* The admin asked for page 3 of 45 projects with pageSize 20 and got 5
\* rows and totalPages 3.
PageArithmeticWitness ==
    /\ last.op = "ProjectList" /\ last.code = OK
    /\ Cardinality(DOMAIN projects) = 45
    /\ last.data.query = [page |-> 3, pageSize |-> 20]
    /\ Len(last.data.rows) = 5
    /\ last.data.meta.totalPages = 3 /\ last.data.meta.total = 45

\* C22: a query of getProjectAnalytics that runs while the project has no
\* DONE task with completedAt set returns the four distribution keys, each
\* 0, and a null average; tasksByStatus has the keys TODO, IN_PROGRESS and
\* DONE, each 0 for a status no task of the project has; the response holds
\* the results as the queries returned them.
EmptyAnalyticsZeroFilled ==
    [][/\ \A i \in 1..Len(calls) :
            (/\ Len(calls') = Len(calls)
             /\ calls[i].op = "Analytics"
             /\ calls'[i] # calls[i]) =>
                LET new == DOMAIN calls'[i].data \ DOMAIN calls[i].data
                    result == calls'[i].data
                    mine == {t \in DOMAIN tasks : tasks[t].projectId = calls[i].pid}
                    none == \A t \in mine : tasks[t].status # "DONE"
                                                \/ tasks[t].completedAt = {}
                IN /\ ("completionTimeDistribution" \in new /\ none) =>
                        /\ DOMAIN result.completionTimeDistribution
                             = {"< 1 Day", "1-3 Days", "3-7 Days", "> 7 Days"}
                        /\ \A k \in DOMAIN result.completionTimeDistribution :
                             result.completionTimeDistribution[k] = 0
                   /\ ("avgCompletionTimeHours" \in new /\ none) =>
                        result.avgCompletionTimeHours = {}
                   /\ "tasksByStatus" \in new =>
                        /\ DOMAIN result.tasksByStatus = {"TODO", "IN_PROGRESS", "DONE"}
                        /\ \A st \in DOMAIN result.tasksByStatus :
                             result.tasksByStatus[st]
                               = Cardinality({t \in mine : tasks[t].status = st})
       /\ (last'.op = "Analytics" /\ last'.code = OK /\ clock' = clock + 1) =>
            \E i \in 1..Len(calls) : /\ calls' = RemoveAt(calls, i)
                                      /\ last'.data = calls[i].data]_vars

\* The analytics of the seeded project were returned while its one task
\* was TODO: every distribution count is 0, the average is null, and
\* tasksByStatus is TODO 1, IN_PROGRESS 0, DONE 0.
EmptyAnalyticsZeroFilledWitness ==
    /\ last.op = "Analytics" /\ last.code = OK /\ last.pid = 0
    /\ 0 \in DOMAIN tasks /\ tasks[0].status = "TODO"
    /\ \A k \in {"< 1 Day", "1-3 Days", "3-7 Days", "> 7 Days"} :
          last.data.completionTimeDistribution[k] = 0
    /\ last.data.avgCompletionTimeHours = {}
    /\ last.data.tasksByStatus = [TODO |-> 1, IN_PROGRESS |-> 0, DONE |-> 0]

\* C23: for every user and project, canBeAssignedTask with the project's
\* member rows and the user's global role is true exactly when
\* validateAssignee accepts the user for that project.
FrontendAgreesWithValidateAssignee ==
    \A userId \in DOMAIN users, projectId \in DOMAIN projects :
        LET projectMembers == {members[m] : m \in {k \in DOMAIN members :
                                                     members[k].projectId = projectId}}
        IN CanBeAssignedTask(userId, projectMembers, users[userId].role)
             <=> (ValidateAssignee(DB, projectId, userId) = OK)

\* C24: once every update call in flight has committed, each task has
\* completedAt set if and only if its status is DONE.
CompletedAtIffDoneAfterRaces ==
    calls = <<>> =>
        \A t \in DOMAIN tasks : (tasks[t].completedAt # {}) <=> (tasks[t].status = "DONE")

\* The audited fields of an entity type.
AuditedFields(entityType) ==
    IF entityType = "Task" THEN fieldsToCheck ELSE {"name", "description"}

\* The stored value of a field as an audit row writes it.
StoredJson(entityType, row, field) ==
    IF entityType = "Task" THEN OldJson(field, row[field]) ELSE row[field]

\* The value an audit row gives as new, as the store keeps it.
NewAsStored(field, new) == IF field = "dueDate" THEN JsonOfDate(StoreDate(new)) ELSE new

\* C25: every audit UPDATE row a step appends gives, for each audited field
\* it mentions, the value stored just before the step as old; and for each
\* entity and audited field the new value of the last UPDATE row that
\* mentions the field is the value now stored.
AuditTrailReconstructs ==
    [][/\ \A i \in (Len(audit) + 1)..Len(audit') :
            LET r == audit'[i]
                rows == IF r.entityType = "Task" THEN tasks ELSE projects
            IN (r.action = "UPDATE" /\ r.entityType \in {"Task", "Project"}
                    /\ r.entityId \in DOMAIN rows) =>
                \A f \in DOMAIN r.details \cap AuditedFields(r.entityType) :
                    r.details[f].old = StoredJson(r.entityType, rows[r.entityId], f)
       /\ \A i \in 1..Len(audit') :
            LET r == audit'[i]
                rows == IF r.entityType = "Task" THEN tasks' ELSE projects'
            IN (r.action = "UPDATE" /\ r.entityType \in {"Task", "Project"}
                    /\ r.entityId \in DOMAIN rows) =>
                \A f \in DOMAIN r.details \cap AuditedFields(r.entityType) :
                    (\A j \in (i + 1)..Len(audit') :
                        ~(/\ audit'[j].action = "UPDATE"
                          /\ audit'[j].entityType = r.entityType
                          /\ audit'[j].entityId = r.entityId
                          /\ f \in DOMAIN audit'[j].details))
                    => NewAsStored(f, r.details[f].new)
                         = StoredJson(r.entityType, rows[r.entityId], f)]_vars

\* C26: a task update request changes, of the task it names, only the
\* fields among title, description, status, priority, assigneeId and dueDate
\* that its body supplies and completedAt; projectId, createdAt and
\* reporterId stay, and no other task, no project and no membership changes.
TaskUpdateFrame ==
    [][(last'.op = "TaskUpdate" /\ clock' = clock + 1) =>
        /\ projects' = projects
        /\ members' = members
        /\ users' = users
        /\ DOMAIN tasks' = DOMAIN tasks
        /\ \A t \in DOMAIN tasks :
             \A k \in DOMAIN tasks[t] :
                tasks'[t][k] # tasks[t][k] =>
                    /\ t = last'.id
                    /\ k \in (DOMAIN last'.data \cap UpdateTaskKeys) \cup {"completedAt"}]_vars


\* Routes behind requireRole('ADMIN').
RequireRoleRoutes ==
    {"UserUpdate", "UserDelete", "ProjectCreate", "ProjectUpdate", "ProjectDelete",
     "AddMember", "UpdateMemberRole", "RemoveMember"}

\* C27: a request behind authenticate is decided by the user row as stored
\* when it arrives, whatever role its token was signed with: the bearer of
\* a token whose user is deleted gets AUTH.USER_NOT_FOUND and the store stays
\* as it was, and only such a bearer gets that code; behind
\* requireRole('ADMIN') the request is stopped with ROLE_REQUIRED exactly
\* when the stored role is not ADMIN; a stored ADMIN is never stopped by a
\* project or task guard.
StoredRoleDecides ==
    [][(clock' = clock + 1 /\ last'.op # "Login") =>
        /\ last'.code = AUTH_USER_NOT_FOUND <=> last'.actor \notin DOMAIN users
        /\ last'.actor \notin DOMAIN users =>
              UNCHANGED <<users, projects, members, tasks, audit>>
        /\ (last'.actor \in DOMAIN users /\ last'.op \in RequireRoleRoutes) =>
              (last'.code = AUTHZ_ROLE_REQUIRED <=> users[last'.actor].role # "ADMIN")
        /\ (last'.actor \in DOMAIN users /\ users[last'.actor].role = "ADMIN") =>
              last'.code \notin {AUTHZ_PROJECT_ACCESS_DENIED,
                                 AUTHZ_WRITE_ACCESS_REQUIRED}]_vars

\* A user deleted by the request before, whose token is still held, is
\* answered AUTH.USER_NOT_FOUND.
StoredRoleDecidesWitness ==
    /\ last.code = AUTH_USER_NOT_FOUND
    /\ last.actor \in DOMAIN tokens \ DOMAIN users
    /\ last.actor = RegisteredUser
    /\ clock = 2

\* A user promoted to ADMIN after the token was signed passes requireRole.
PromotedBearerPasses ==
    /\ last.op = "ProjectCreate"
    /\ last.code = OK
    /\ last.actor \in DOMAIN tokens
    /\ tokens[last.actor] # "ADMIN"


\* C30: for every stored user and every stored task, requireTaskAccess lets
\* the user through exactly when requireProjectAccess on the task's project
\* does: requireProjectAccess([MEMBER]) for write access, requireProjectAccess()
\* for read access.
TaskGuardAgreesWithProjectGuard ==
    \A actor \in DOMAIN users, taskId \in DOMAIN tasks, requireWrite \in BOOLEAN :
        RequireTaskAccess(DB, actor, taskId, requireWrite) = OK
            <=> RequireProjectAccess(DB, actor, tasks[taskId].projectId,
                                     IF requireWrite THEN {"MEMBER"} ELSE {}) = OK

\* PATCH /tasks/:id of a project's VIEWER was stopped by requireTaskAccess;
\* the project guards stop the same user from writing and let them read.
TaskGuardAgreesWithProjectGuardWitness ==
    /\ last.op = "TaskUpdate"
    /\ last.code = AUTHZ_WRITE_ACCESS_REQUIRED
    /\ last.actor \in DOMAIN users
    /\ last.id \in DOMAIN tasks
    /\ RequireProjectAccess(DB, last.actor, tasks[last.id].projectId, {"MEMBER"})
           = AUTHZ_WRITE_ACCESS_REQUIRED
    /\ RequireProjectAccess(DB, last.actor, tasks[last.id].projectId, {}) = OK
    /\ RequireTaskAccess(DB, last.actor, last.id, FALSE) = OK


\* C28: the distribution a project's analytics return counts every DONE task
\* with completedAt set in one bucket by its hours d from createdAt to
\* completedAt: "< 1 Day" for d < 24, "1-3 Days" for 24 <= d < 72, "3-7 Days"
\* for 72 <= d < 168, "> 7 Days" for d >= 168; the four counts add up to the
\* number of such tasks.
DistributionHalfOpenBuckets ==
    (last.op = "Analytics" /\ last.code = OK /\ last.pid \in DOMAIN projects) =>
        LET done == Completed(DB, last.pid)
            hours(t) == DurationHours(tasks[t])
            dist == last.data.completionTimeDistribution
        IN /\ dist["< 1 Day"] = Cardinality({t \in done : hours(t) < 24})
           /\ dist["1-3 Days"] =
                 Cardinality({t \in done : 24 <= hours(t) /\ hours(t) < 72})
           /\ dist["3-7 Days"] =
                 Cardinality({t \in done : 72 <= hours(t) /\ hours(t) < 168})
           /\ dist["> 7 Days"] = Cardinality({t \in done : hours(t) >= 168})
           /\ dist["< 1 Day"] + dist["1-3 Days"] + dist["3-7 Days"] + dist["> 7 Days"]
                 = Cardinality(done)

\* C29: the average a project's analytics return is null exactly when the
\* project has no DONE task with completedAt set, and is otherwise the mean
\* of the hours of those tasks (the result is a set of at most one number
\* of hundredths of an hour, {} for null).
AverageIsTheMean ==
    (last.op = "Analytics" /\ last.code = OK /\ last.pid \in DOMAIN projects) =>
        LET done == Completed(DB, last.pid)
            avg == last.data.avgCompletionTimeHours
        IN /\ avg = {} <=> done = {}
           /\ done # {} =>
                 \A hundredths \in avg :
                     hundredths * Cardinality(done) = 100 * SumDurationHours(DB, done)

====
